---------------------------- MODULE Spec2Model ----------------------------
(***************************************************************************)
(* Paged KV-cache block allocators, block space manager and three-queue    *)
(* request scheduler.                                                      *)
(*                                                                         *)
(* The module holds several state machines over one set of variables:      *)
(*   Spec          the Scheduler driving the BlockSpaceManager             *)
(*   SpecAlloc     NaiveBlockAllocator with NaiveBlock objects             *)
(*   SpecCanAllocate  BlockSpaceManager.can_allocate over its inputs       *)
(*   SpecPrefix    PrefixCachingBlockAllocator with its block objects      *)
(*   SpecEvictor   LRUEvictor                                              *)
(*   SpecRefCounter  RefCounter                                            *)
(*   SpecDevice    CpuGpuBlockAllocator with its block objects             *)
(*   SpecBlockTable  BlockSpaceManagerV2 with its BlockTables              *)
(* Each machine leaves the variables of the others unchanged.              *)
(***************************************************************************)
EXTENDS Integers, Sequences, FiniteSets, TLC

VARIABLES
    \* ---- allocator machine (SpecAlloc) ----
    alloc,        \* the NaiveBlockAllocator under test
    blocks,       \* the NaiveBlock objects of the client, by handle
    alloc_last,   \* the last allocator operation and how it ended
    \* ---- scheduler machine (Spec) ----
    waiting,      \* Scheduler.waiting: group ids, front first
    running,      \* Scheduler.running
    swapped,      \* Scheduler.swapped
    best_of,      \* sampling_params.best_of of every group, 0 = not created
    seqs,         \* status and length of every sequence
    block_tables, \* BlockSpaceManager.block_tables, <<>> = no entry
    gpu_allocator,\* BlockSpaceManager.gpu_allocator
    cpu_allocator,\* BlockSpaceManager.cpu_allocator
    out,          \* the SchedulerOutputs of the last schedule() that returned
    pending,      \* scheduled groups whose tokens of this step are due
    returned,     \* TRUE right after a schedule() call that returned out
    fault,        \* the exception that ended the engine, "none" if none
    \* ---- can_allocate machine (SpecCanAllocate) ----
    query,        \* a block manager configuration and its last can_allocate
    \* ---- prefix-caching allocator machine (SpecPrefix) ----
    prefix,       \* the PrefixCachingBlockAllocator under test
    pblocks,      \* the PrefixCachingBlock objects of the client, by handle
    prefix_last,  \* the last prefix allocator operation and how it ended
    \* ---- evictor machine (SpecEvictor) ----
    free_table,   \* LRUEvictor.free_table
    evictor_last, \* the last evictor call, its arguments or the evicted block
    \* ---- reference counter machine (SpecRefCounter) ----
    refcounter,   \* the RefCounter under test
    refcounter_last, \* the last RefCounter call and what it returned
    \* ---- two-device allocator machine (SpecDevice) ----
    device_allocators, \* the CpuGpuBlockAllocator: one allocator per device
    device_blocks,     \* the block objects of the client, by handle
    device_last,       \* the last call of the two-device allocator
    \* ---- block table machine (SpecBlockTable) ----
    block_manager_v2,  \* the BlockSpaceManagerV2 under test
    v2_seqs,           \* the token ids of every sequence, <<>> = no sequence
    v2_last            \* the last call of the manager and its sequence

alloc_vars == <<alloc, blocks, alloc_last>>
sched_vars == <<waiting, running, swapped, best_of, seqs, block_tables,
                gpu_allocator, cpu_allocator, out, pending, returned, fault>>
query_vars == <<query>>
prefix_vars == <<prefix, pblocks, prefix_last>>
evictor_vars == <<free_table, evictor_last>>
refcounter_vars == <<refcounter, refcounter_last>>
device_vars == <<device_allocators, device_blocks, device_last>>
v2_vars == <<block_manager_v2, v2_seqs, v2_last>>
vars == <<alloc, blocks, alloc_last, waiting, running, swapped, best_of, seqs,
          block_tables, gpu_allocator, cpu_allocator, out, pending, returned,
          fault, query, prefix, pblocks, prefix_last, free_table, evictor_last,
          refcounter, refcounter_last, device_allocators, device_blocks,
          device_last, block_manager_v2, v2_seqs, v2_last>>

(***************************************************************************)
(* Bounds of the model                                                     *)
(***************************************************************************)
\* number of slots of the allocator under test (NaiveBlockAllocator num_blocks)
NumBlocks == 2
\* number of NaiveBlock objects a client holds at once
MaxBlockObjs == 3
\* tokens per block (block_size) in the allocator machine
BlockSize == 2
\* token ids are 0..MaxToken
MaxToken == 0
\* copy-on-write records kept in _copy_on_writes (the naive allocator never
\* clears the list)
MaxCows == 1

\* ---- configuration of the scheduler machine ----
\* cache_config.block_size
block_size == 3
\* cache_config.num_gpu_blocks
num_gpu_blocks == 4
\* cache_config.num_cpu_blocks
num_cpu_blocks == 2
\* scheduler_config.max_num_batched_tokens
max_num_batched_tokens == 13
\* scheduler_config.max_num_seqs
max_num_seqs == 4
\* scheduler_config.max_model_len
max_model_len == 13
\* scheduler_config.max_paddings
max_paddings == 1
\* number of requests over the life of the engine
MaxGroups == 2
\* length at which the engine caps a sequence (max_tokens reached)
MaxSeqLen == 4
\* largest best_of of a request
MaxBestOf == 3

\* ---- inputs of the can_allocate machine ----
\* largest num_gpu_blocks of a block manager
MaxTotalBlocks == 4
\* largest number of logical blocks of a waiting prompt
MaxPromptBlocks == 5
\* largest block_sliding_window
MaxWindow == 2

\* ---- bounds of the prefix-caching allocator machine ----
\* number of slots of the prefix-caching allocator
NumPrefixBlocks == 3
\* number of PrefixCachingBlock objects a client holds at once
MaxPrefixObjs == 4
\* tokens per block
PrefixBlockSize == 1
\* token ids are 0..MaxPrefixToken
MaxPrefixToken == 1
\* longest chain of blocks
MaxChainLen == 2

\* ---- inputs of the evictor machine ----
\* content hashes are 1..NumHashes
NumHashes == 3
\* num_hashed_tokens is 1..MaxNumHashed
MaxNumHashed == 2
\* last_accessed is 0..MaxClock
MaxClock == 2

\* ---- bound of the reference counter machine ----
\* largest reference count reached
MaxRefcount == 4

\* ---- bounds of the block table machine (block_size is BlockSize) ----
\* num_gpu_blocks of the BlockSpaceManagerV2
NumV2GpuBlocks == 3
\* token ids are 0..MaxV2Token
MaxV2Token == 1
\* longest prompt
MaxV2Prompt == 3
\* most tokens a sequence gains before append_slot is called
MaxV2Append == 3
\* longest sequence
MaxV2Len == 5

\* ---- bounds of the two-device allocator machine ----
\* num_gpu_blocks and num_cpu_blocks of the CpuGpuBlockAllocator
NumDeviceGpuBlocks == 2
NumDeviceCpuBlocks == 2
\* number of block objects a client holds at once
MaxDeviceObjs == 4

\* physical_block_index = None
None == -1

(***************************************************************************)
(* Generic helpers                                                         *)
(***************************************************************************)
Min(S) == CHOOSE x \in S : \A y \in S : x <= y
Max(S) == CHOOSE x \in S : \A y \in S : x >= y

RECURSIVE SumSeq(_)
SumSeq(s) == IF s = <<>> THEN 0 ELSE Head(s) + SumSeq(Tail(s))

RECURSIVE MaxSeq(_)
MaxSeq(s) == IF Len(s) = 1 THEN s[1]
             ELSE LET m == MaxSeq(Tail(s)) IN IF s[1] >= m THEN s[1] ELSE m

Range(s) == {s[i] : i \in 1..Len(s)}

(***************************************************************************)
(* RefCounter and NaiveBlockAllocator                                      *)
(* An allocator is a record                                                *)
(*   refcounts           RefCounter._refcounts                             *)
(*   free_block_indices  NaiveBlockAllocator._free_block_indices           *)
(*   copy_on_writes      NaiveBlockAllocator._copy_on_writes (a            *)
(*                       defaultdict(list): every key reads as <<>>)       *)
(***************************************************************************)
NaiveBlockAllocator(block_ids) ==
    [refcounts          |-> [i \in block_ids |-> 0],
     free_block_indices |-> block_ids,
     copy_on_writes     |-> [i \in block_ids |-> <<>>]]

\* RefCounter.incr: the caller has checked block_index \in DOMAIN refcounts
incr(a, block_index) == [a EXCEPT !.refcounts[block_index] = @ + 1]

\* a decr that takes two references
decr_twice(a, block_index) == [a EXCEPT !.refcounts[block_index] = @ - 2]

\* RefCounter.decr: the caller has checked refcounts[block_index] > 0
decr(a, block_index) == [a EXCEPT !.refcounts[block_index] = @ - 1]

\* RefCounter.get
get(a, block_index) == a.refcounts[block_index]

get_num_free_blocks(a) == Cardinality(a.free_block_indices)

\* _allocate_new_block with block_index = next(iter(_free_block_indices));
\* the caller has checked that the free set is not empty
allocate_new_block(a, block_index) ==
    [incr(a, block_index) EXCEPT !.free_block_indices = @ \ {block_index}]

\* variant of _free_block_index that never returns the slot to the free set
free_block_index_keeps_slot(a, block_index) == decr(a, block_index)

\* _free_block_index; the caller has checked refcounts[block_index] > 0
free_block_index(a, block_index) ==
    LET d == decr(a, block_index)
    IN  IF d.refcounts[block_index] = 0
        THEN [d EXCEPT !.free_block_indices = @ \cup {block_index}]
        ELSE d

\* the bookkeeping line of _copy_on_write
record_cow(a, src, dst) ==
    [a EXCEPT !.copy_on_writes[src] = Append(@, dst)]

(***************************************************************************)
(* NaiveBlock objects.  A block is a record                                *)
(*   exists                the object has been created                     *)
(*   physical_block_index  slot index or None                              *)
(*   token_ids             the tokens appended so far                      *)
(*   prev_block            handle of the predecessor, 0 for None           *)
(***************************************************************************)
Handles == 1..MaxBlockObjs
BlockIds == 0..(NumBlocks - 1)
TokenIds == 0..MaxToken

NoObject == [exists |-> FALSE, physical_block_index |-> None,
             token_ids |-> <<>>, prev_block |-> 0]

\* NaiveBlock.__init__ (token_ids are copied by _append_token_ids_no_cow)
NaiveBlock(prev_block, token_ids, physical_block_index) ==
    [exists |-> TRUE, physical_block_index |-> physical_block_index,
     token_ids |-> token_ids, prev_block |-> prev_block]

num_empty_slots(blk) == BlockSize - Len(blk.token_ids)
is_full(blk) == num_empty_slots(blk) = 0

RECURSIVE get_all_blocks_recursively(_, _)
get_all_blocks_recursively(bs, h) ==
    IF bs[h].prev_block = 0 THEN <<h>>
    ELSE Append(get_all_blocks_recursively(bs, bs[h].prev_block), h)

\* NaiveBlockAllocator._copy_on_write; dst = next(iter(free set)) when the
\* free set is not empty.  The source is released before the new slot is taken.
copy_on_write(a, src, dst) ==
    LET f == free_block_index(a, src)
    IN  IF f.free_block_indices = {}
        THEN [a |-> f, block_index |-> src, result |-> "NoFreeBlocksError"]
        ELSE [a |-> record_cow(allocate_new_block(f, dst), src, dst),
              block_index |-> dst, result |-> "ok"]

\* NaiveBlockAllocator.cow_if_not_appendable
cow_if_not_appendable(a, block_index, dst) ==
    IF get(a, block_index) = 0
    THEN [a |-> a, block_index |-> block_index, result |-> "AssertionError"]
    ELSE IF get(a, block_index) > 1
         THEN copy_on_write(a, block_index, dst)
         ELSE [a |-> a, block_index |-> block_index, result |-> "ok"]

\* NaiveBlock.append_token_ids: the tokens are appended first, then the slot
\* is copied on write; an exception leaves the slot binding as it was.
append_token_ids(a, blk, token_ids, dst) ==
    LET b1 == [blk EXCEPT !.token_ids = @ \o token_ids]
    IN  IF blk.physical_block_index = None
        THEN [a |-> a, blk |-> b1, result |-> "ok"]
        ELSE LET c == cow_if_not_appendable(a, blk.physical_block_index, dst)
             IN  [a |-> c.a,
                  blk |-> IF c.result = "ok"
                          THEN [b1 EXCEPT !.physical_block_index = c.block_index]
                          ELSE b1,
                  result |-> c.result]

\* the index next(iter(free set)) may yield; None stands for "no index"
FreeChoices(a) ==
    IF a.free_block_indices = {} THEN {None} ELSE a.free_block_indices

CowCount(a) ==
    SumSeq([k \in 1..Cardinality(DOMAIN a.copy_on_writes) |->
              Len(a.copy_on_writes[k - 1])])

\* The client keeps a block object while it holds a slot or is the
\* predecessor of an object it keeps; a freed block that is nobody's
\* predecessor is dropped (Python releases the object).
Dropped(bs, h) ==
    /\ bs[h].exists
    /\ bs[h].physical_block_index = None
    /\ \A k \in Handles : bs[k].exists => bs[k].prev_block # h

RECURSIVE Release(_)
Release(bs) ==
    IF \E h \in Handles : Dropped(bs, h)
    THEN Release([h \in Handles |-> IF Dropped(bs, h) THEN NoObject ELSE bs[h]])
    ELSE bs

ReusableHandles == {h \in Handles : ~blocks[h].exists}
NewHandle == Min(ReusableHandles)
\* prev_block of a new block: None, or the last block of a chain (chains are
\* built block after block, as a block table builds them)
PrevChoices(h) ==
    {0} \cup {p \in Handles \ {h} :
                /\ blocks[p].exists
                /\ \A k \in Handles : blocks[k].exists => blocks[k].prev_block # p}

\* allocate_mutable(prev_block)
AllocateMutable ==
    /\ ReusableHandles # {}
    /\ \E prev \in PrevChoices(NewHandle) :
        IF alloc.free_block_indices = {}
        THEN /\ alloc_last' = [op |-> "allocate_mutable", h |-> 0,
                               result |-> "NoFreeBlocksError"]
             /\ UNCHANGED <<alloc, blocks>>
        ELSE \E i \in alloc.free_block_indices :
             /\ alloc' = allocate_new_block(alloc, i)
             /\ blocks' = [blocks EXCEPT ![NewHandle] = NaiveBlock(prev, <<>>, i)]
             /\ alloc_last' = [op |-> "allocate_mutable", h |-> NewHandle,
                               result |-> "ok"]
    /\ UNCHANGED <<sched_vars, query_vars, prefix_vars, evictor_vars,
                 refcounter_vars, device_vars, v2_vars>>

FullBlocks == [1..BlockSize -> TokenIds]

\* allocate_immutable(prev_block, token_ids): allocate_mutable, then
\* block.append_token_ids(token_ids)
AllocateImmutable ==
    /\ ReusableHandles # {}
    /\ \E prev \in PrevChoices(NewHandle), token_ids \in FullBlocks :
        IF alloc.free_block_indices = {}
        THEN /\ alloc_last' = [op |-> "allocate_immutable", h |-> 0,
                               result |-> "NoFreeBlocksError"]
             /\ UNCHANGED <<alloc, blocks>>
        ELSE \E i \in alloc.free_block_indices :
             LET a1 == allocate_new_block(alloc, i)
             IN  \E dst \in FreeChoices(a1) :
                 LET r == append_token_ids(a1, NaiveBlock(prev, <<>>, i),
                                           token_ids, dst)
                 IN  /\ CowCount(r.a) <= MaxCows
                     /\ alloc' = r.a
                     \* the new object reaches the caller only without exception
                     /\ blocks' = IF r.result = "ok"
                                  THEN [blocks EXCEPT ![NewHandle] = r.blk]
                                  ELSE blocks
                     /\ alloc_last' = [op |-> "allocate_immutable",
                                       h |-> IF r.result = "ok" THEN NewHandle ELSE 0,
                                       result |-> r.result]
    /\ UNCHANGED <<sched_vars, query_vars, prefix_vars, evictor_vars,
                 refcounter_vars, device_vars, v2_vars>>

\* free(block) of a block that holds a slot
Free(h) ==
    /\ blocks[h].exists
    /\ blocks[h].physical_block_index # None
    /\ blocks' = Release([blocks EXCEPT ![h].physical_block_index = None])
    /\ IF get(alloc, blocks[h].physical_block_index) > 0
       THEN /\ alloc' = free_block_index(alloc, blocks[h].physical_block_index)
            /\ alloc_last' = [op |-> "free", h |-> h, result |-> "ok"]
       ELSE \* RefCounter.decr: assert refcount > 0
            /\ alloc' = alloc
            /\ alloc_last' = [op |-> "free", h |-> h, result |-> "AssertionError"]
    /\ UNCHANGED <<sched_vars, query_vars, prefix_vars, evictor_vars,
                 refcounter_vars, device_vars, v2_vars>>

\* the refcount walk of fork over the chain: stops at the first block whose
\* incremented refcount is 1 ("can't fork free'd block")
RECURSIVE fork_incr(_, _, _)
fork_incr(a, bs, chain) ==
    IF chain = <<>> THEN [a |-> a, result |-> "ok"]
    ELSE LET a1 == incr(a, bs[Head(chain)].physical_block_index)
         IN  IF get(a1, bs[Head(chain)].physical_block_index) = 1
             THEN [a |-> a1, result |-> "AssertionError"]
             ELSE fork_incr(a1, bs, Tail(chain))

\* the k smallest elements of S, ascending
RECURSIVE Smallest(_, _)
Smallest(S, k) ==
    IF k = 0 \/ S = {} THEN <<>> ELSE <<Min(S)>> \o Smallest(S \ {Min(S)}, k - 1)

\* fork(last_block), called on a chain all of whose blocks hold a slot
Fork(h) ==
    LET chain == get_all_blocks_recursively(blocks, h)
        n     == Len(chain)
        new   == Smallest(ReusableHandles, n)
        r     == fork_incr(alloc, blocks, chain)
    IN  /\ blocks[h].exists
        /\ \A k \in 1..n : blocks[chain[k]].physical_block_index # None
        /\ Cardinality(ReusableHandles) >= n
        /\ alloc' = r.a
        /\ blocks' = IF r.result = "ok"
                     THEN [x \in Handles |->
                            IF \E k \in 1..n : new[k] = x
                            THEN LET k == CHOOSE k \in 1..n : new[k] = x
                                 IN  NaiveBlock(IF k = 1 THEN 0 ELSE new[k - 1],
                                                blocks[chain[k]].token_ids,
                                                blocks[chain[k]].physical_block_index)
                            ELSE blocks[x]]
                     ELSE blocks
        /\ alloc_last' = [op |-> "fork", h |-> h, result |-> r.result]
        /\ UNCHANGED <<sched_vars, query_vars, prefix_vars, evictor_vars,
                 refcounter_vars, device_vars, v2_vars>>

\* block.append_token_ids(token_ids) with room for the tokens
AppendTokenIds(h) ==
    /\ blocks[h].exists
    /\ \E t \in TokenIds, dst \in FreeChoices(alloc) :
        /\ num_empty_slots(blocks[h]) >= 1
        /\ LET r == append_token_ids(alloc, blocks[h], <<t>>, dst)
           IN  /\ CowCount(r.a) <= MaxCows
               /\ alloc' = r.a
               /\ blocks' = [blocks EXCEPT ![h] = r.blk]
               /\ alloc_last' = [op |-> "append", h |-> h, result |-> r.result]
    /\ UNCHANGED <<sched_vars, query_vars, prefix_vars, evictor_vars,
                 refcounter_vars, device_vars, v2_vars>>

InitAlloc ==
    /\ alloc = NaiveBlockAllocator(BlockIds)
    /\ blocks = [h \in Handles |-> NoObject]
    /\ alloc_last = [op |-> "init", h |-> 0, result |-> "ok"]

NextAlloc ==
    \/ AllocateMutable
    \/ AllocateImmutable
    \/ \E h \in Handles : Free(h)
    \/ \E h \in Handles : Fork(h)
    \/ \E h \in Handles : AppendTokenIds(h)


(***************************************************************************)
(* Scheduler machine: sequences and sequence groups                        *)
(*                                                                         *)
(* A scheduler state is a record S with the fields                         *)
(*   waiting, running, swapped   the three queues                          *)
(*   best_of, seqs               the groups and their sequences            *)
(*   block_tables, gpu, cpu      the BlockSpaceManager                     *)
(*   fault                       "none" or the exception raised            *)
(* The operators below are the methods of Scheduler and BlockSpaceManager  *)
(* as functions from state to state; once S.fault is set every later       *)
(* statement is skipped, as after a raise.                                 *)
(***************************************************************************)
\* request ids: MaxGroups requests arrive, one more id stays unused
Groups == 1..(MaxGroups + 1)
SeqIds == Groups \X (1..MaxBestOf)
\* the requests that arrive: <<prompt length, best_of>>
Requests ==
    {<<1, bo>> : bo \in 2..MaxBestOf}
      \cup {<<len, 1>> : len \in {2, 3, 7, max_model_len, max_model_len + 1}}

FinishedStatuses ==
    {"FINISHED_STOPPED", "FINISHED_LENGTH_CAPPED", "FINISHED_ABORTED",
     "FINISHED_IGNORED"}

NoSeq == [status |-> "NONE", len |-> 0]

Ok(S) == S.fault = "none"
Raise(S, e) == IF Ok(S) THEN [S EXCEPT !.fault = e] ELSE S

\* Sequence.is_finished
is_finished(S, s) == S.seqs[s].status \in FinishedStatuses

\* SequenceGroup.get_seqs(): the sequences of the group in creation order
get_seqs(S, g) ==
    SelectSeq([k \in 1..MaxBestOf |-> <<g, k>>],
              LAMBDA s : S.seqs[s].status # "NONE")

\* SequenceGroup.get_seqs(status=...)
get_seqs_status(S, g, status) ==
    SelectSeq([k \in 1..MaxBestOf |-> <<g, k>>],
              LAMBDA s : S.seqs[s].status = status)

num_seqs(S, g) == Len(get_seqs(S, g))
num_seqs_status(S, g, status) == Len(get_seqs_status(S, g, status))
num_unfinished_seqs(S, g) ==
    Len(SelectSeq(get_seqs(S, g), LAMBDA s : ~is_finished(S, s)))

\* SequenceGroup.is_finished: all sequences of the group are finished
group_is_finished(S, g) == \A k \in 1..MaxBestOf :
    S.seqs[<<g, k>>].status # "NONE" => is_finished(S, <<g, k>>)

\* SequenceGroup.get_max_num_running_seqs (no beam search): best_of while the
\* group is not yet filled up, afterwards the number of unfinished sequences
get_max_num_running_seqs(S, g) ==
    IF S.best_of[g] > num_seqs(S, g) THEN S.best_of[g]
    ELSE num_unfinished_seqs(S, g)

\* len(seq.logical_token_blocks)
num_logical_blocks(len) == (len + block_size - 1) \div block_size

\* FCFS policy: sort_by_priority orders by arrival time, earliest first; the
\* arrival time of a group is its id (groups are numbered as they arrive)
RECURSIVE sort_by_priority(_)
sort_by_priority(q) ==
    IF q = <<>> THEN <<>>
    ELSE LET m == Min(Range(q))
         IN  <<m>> \o sort_by_priority(SelectSeq(q, LAMBDA x : x # m))

\* variant of state_queue.remove that drops the group at the front
remove_front(q, g) == IF q = <<>> THEN q ELSE Tail(q)

Remove(q, g) == SelectSeq(q, LAMBDA x : x # g)

(***************************************************************************)
(* BlockSpaceManager.  A physical block is <<device, block_number>>; its   *)
(* ref_count is the refcount of the device's allocator.                    *)
(***************************************************************************)
\* self.watermark_blocks = int(watermark * num_gpu_blocks), watermark = 0.01
watermark_blocks == (1 * num_gpu_blocks) \div 100

GpuIds == 0..(num_gpu_blocks - 1)
CpuIds == 0..(num_cpu_blocks - 1)

AllocOf(S, device) == IF device = "gpu" THEN S.gpu ELSE S.cpu
SetAlloc(S, device, a) ==
    IF device = "gpu" THEN [S EXCEPT !.gpu = a] ELSE [S EXCEPT !.cpu = a]

ref_count(S, block) == get(AllocOf(S, block[1]), block[2])

\* the block allocator.allocate() hands out: the free slot with the least index
NextFree(S, device) == Min(AllocOf(S, device).free_block_indices)

\* <device>_allocator.allocate(): takes a free slot, ref_count 1
bm_allocate(S, device) ==
    IF ~Ok(S) THEN S
    ELSE IF AllocOf(S, device).free_block_indices = {}
         THEN Raise(S, "NoFreeBlocksError")
         ELSE SetAlloc(S, device,
                       allocate_new_block(AllocOf(S, device), NextFree(S, device)))

\* <device>_allocator.free(block)
bm_free_block(S, block) ==
    IF ~Ok(S) THEN S
    ELSE IF ref_count(S, block) = 0
         THEN Raise(S, "AssertionError")
         ELSE SetAlloc(S, block[1],
                       free_block_index(AllocOf(S, block[1]), block[2]))

\* block.ref_count += 1
bm_incr(S, block) ==
    SetAlloc(S, block[1], incr(AllocOf(S, block[1]), block[2]))

\* can_allocate that tests the free count, not the total, for NEVER
can_allocate_status_never_by_free(total, free, nblocks, wm, block_sliding_window) ==
    LET num_required_blocks ==
            IF block_sliding_window # None /\ block_sliding_window < nblocks
            THEN block_sliding_window ELSE nblocks
    IN  IF free - num_required_blocks < wm
        THEN "NEVER"
        ELSE "OK"

\* BlockSpaceManager.can_allocate, from the totals it reads:
\* block_sliding_window is None when no sliding window is configured
\* (total = num_total_gpu_blocks, free = gpu_allocator.get_num_free_blocks(),
\* nblocks = len(seq.logical_token_blocks), wm = watermark_blocks)
can_allocate_status(total, free, nblocks, wm, block_sliding_window) ==
    LET num_required_blocks ==
            IF block_sliding_window # None /\ block_sliding_window < nblocks
            THEN block_sliding_window ELSE nblocks
    IN  IF total - num_required_blocks < wm
        THEN "NEVER"
        ELSE IF free - num_required_blocks >= wm
             THEN "OK"
             ELSE "LATER"

\* can_allocate(seq_group) of the scheduler's block manager (no sliding window)
can_allocate(S, g) ==
    can_allocate_status(
        num_gpu_blocks, get_num_free_blocks(S.gpu),
        num_logical_blocks(S.seqs[get_seqs_status(S, g, "WAITING")[1]].len),
        watermark_blocks, None)

\* the allocation loop of allocate(): n fresh GPU blocks appended to table
RECURSIVE allocate_blocks(_, _, _)
allocate_blocks(S, n, table) ==
    IF n = 0 \/ ~Ok(S) THEN [S |-> S, table |-> table]
    ELSE IF S.gpu.free_block_indices = {}
         THEN [S |-> Raise(S, "NoFreeBlocksError"), table |-> table]
         ELSE allocate_blocks(bm_allocate(S, "gpu"), n - 1,
                              Append(table, <<"gpu", NextFree(S, "gpu")>>))

\* "self.block_tables[seq.seq_id] = block_table.copy()" for every WAITING
\* sequence, r the result of the allocation loop
set_block_tables(r, waiting_seqs) ==
    IF ~Ok(r.S) THEN r.S
    ELSE [r.S EXCEPT !.block_tables =
            [s \in SeqIds |-> IF s \in Range(waiting_seqs) THEN r.table
                              ELSE @[s]]]

\* allocate(seq_group): one table for the prompt, copied to every WAITING
\* sequence of the group
allocate(S, g) ==
    set_block_tables(
        allocate_blocks(
            S,
            num_logical_blocks(S.seqs[get_seqs_status(S, g, "WAITING")[1]].len),
            <<>>),
        get_seqs_status(S, g, "WAITING"))

\* variant of can_append_slot that never asks for a preemption
can_append_slot_always(S, g) == TRUE

\* can_append_slot(seq_group)
can_append_slot(S, g) ==
    num_seqs_status(S, g, "RUNNING") <= get_num_free_blocks(S.gpu)

\* append_slot(seq): the new state and the (src, dst) pair, <<>> for None
append_slot(S, s) ==
    LET table   == S.block_tables[s]
        logical == num_logical_blocks(S.seqs[s].len)
        last    == table[Len(table)]
        new     == <<"gpu", NextFree(S, "gpu")>>
    IN  IF ~Ok(S) THEN [S |-> S, ret |-> <<>>]
        ELSE IF Len(table) < logical
        THEN IF Len(table) # logical - 1
             THEN [S |-> Raise(S, "AssertionError"), ret |-> <<>>]
             ELSE \* _allocate_last_physical_block, appended to the table
                  IF S.gpu.free_block_indices = {}
                  THEN [S |-> Raise(S, "NoFreeBlocksError"), ret |-> <<>>]
                  ELSE [S |-> [bm_allocate(S, "gpu") EXCEPT
                                 !.block_tables[s] = Append(@, new)],
                        ret |-> <<>>]
        ELSE IF table = <<>> \/ last[1] # "gpu"
        THEN [S |-> Raise(S, "AssertionError"), ret |-> <<>>]
        ELSE IF ref_count(S, last) = 1
        THEN \* not shared: the token goes into the last block (promotion of a
             \* full block changes no slot of an allocator without hash index)
             [S |-> S, ret |-> <<>>]
        ELSE \* shared: copy on write
             IF S.gpu.free_block_indices = {}
             THEN [S |-> Raise(S, "NoFreeBlocksError"), ret |-> <<>>]
             ELSE [S |-> bm_free_block(
                           [bm_allocate(S, "gpu") EXCEPT
                              !.block_tables[s][Len(table)] = new],
                           last),
                   ret |-> <<last[2], new[2]>>]

\* fork(parent_seq, child_seq)
RECURSIVE incr_all(_, _)
incr_all(S, table) ==
    IF table = <<>> THEN S
    ELSE incr_all(bm_incr(S, Head(table)), Tail(table))

fork(S, parent_seq, child_seq) ==
    incr_all([S EXCEPT !.block_tables[child_seq] = S.block_tables[parent_seq]],
             S.block_tables[parent_seq])

\* _get_physical_blocks(seq_group): the blocks of the unfinished sequences
get_physical_blocks(S, g) ==
    UNION {Range(S.block_tables[<<g, k>>]) :
             k \in {j \in 1..MaxBestOf :
                      /\ S.seqs[<<g, j>>].status # "NONE"
                      /\ ~is_finished(S, <<g, j>>)}}

\* can_swap_in(seq_group)
can_swap_in(S, g) ==
    get_num_free_blocks(S.gpu)
      - (Cardinality(get_physical_blocks(S, g))
           + num_seqs_status(S, g, "SWAPPED")) >= watermark_blocks

\* can_swap_out(seq_group)
can_swap_out(S, g) ==
    Cardinality(get_physical_blocks(S, g)) <= get_num_free_blocks(S.cpu)

\* the block loop of swap_in / swap_out over one table; W is the record
\* [S, mapping, new_table], mapping a sequence of <<from block, to block>>
RECURSIVE swap_table(_, _, _)
swap_table(W, table, to) ==
    IF table = <<>> \/ ~Ok(W.S) THEN W
    ELSE LET b == Head(table)
         IN  IF \E m \in Range(W.mapping) : m[1] = b
             THEN LET t == (CHOOSE m \in Range(W.mapping) : m[1] = b)[2]
                  IN  swap_table(
                        [S |-> bm_free_block(bm_incr(W.S, t), b),
                         mapping |-> W.mapping,
                         new_table |-> Append(W.new_table, t)],
                        Tail(table), to)
             ELSE IF AllocOf(W.S, to).free_block_indices = {}
             THEN [W EXCEPT !.S = Raise(W.S, "NoFreeBlocksError")]
             ELSE LET t == <<to, NextFree(W.S, to)>>
                  IN  swap_table(
                        [S |-> bm_free_block(bm_allocate(W.S, to), b),
                         mapping |-> Append(W.mapping, <<b, t>>),
                         new_table |-> Append(W.new_table, t)],
                        Tail(table), to)

\* variant of the table assignment that leaves the old table in place
set_new_table_skipped(r, s) == r

\* "block_table[seq.seq_id] = new_block_table" with the result r of the
\* block loop
set_new_table(r, s) ==
    IF Ok(r.S) THEN [r EXCEPT !.S.block_tables[s] = r.new_table] ELSE r

\* the sequence loop of swap_in / swap_out
RECURSIVE swap_seqs(_, _, _)
swap_seqs(W, seq_list, to) ==
    IF seq_list = <<>> \/ ~Ok(W.S) THEN W
    ELSE swap_seqs(set_new_table(swap_table([W EXCEPT !.new_table = <<>>],
                                            W.S.block_tables[Head(seq_list)],
                                            to),
                                 Head(seq_list)),
                   Tail(seq_list), to)

\* the block_number_mapping a swap returns, as a set of <<from, to>> numbers
block_number_mapping(mapping) ==
    {<<m[1][2], m[2][2]>> : m \in Range(mapping)}

\* what swap_in / swap_out return after the sequence loop
swap_result(r) == [S |-> r.S, mapping |-> block_number_mapping(r.mapping)]

\* swap_in(seq_group): CPU block -> GPU block
swap_in(S, g) ==
    swap_result(swap_seqs([S |-> S, mapping |-> <<>>, new_table |-> <<>>],
                          get_seqs_status(S, g, "SWAPPED"), "gpu"))

\* swap_out(seq_group): GPU block -> CPU block
swap_out(S, g) ==
    swap_result(swap_seqs([S |-> S, mapping |-> <<>>, new_table |-> <<>>],
                          get_seqs_status(S, g, "RUNNING"), "cpu"))

\* _free_block_table: every distinct block of the table is freed once
RECURSIVE free_block_table(_, _)
free_block_table(S, bs) ==
    IF bs = {} \/ ~Ok(S) THEN S
    ELSE LET b == CHOOSE x \in bs : TRUE
         IN  free_block_table(bm_free_block(S, b), bs \ {b})

\* variant of free that keeps the block table of the sequence
free_keeps_block_table(S, s) ==
    IF S.block_tables[s] = <<>> THEN S
    ELSE free_block_table(S, Range(S.block_tables[s]))

\* variant of the deletion that leaves the table in place
del_block_table_skipped(r, s) == r

\* "del self.block_tables[seq.seq_id]" once the blocks are freed
del_block_table(r, s) ==
    IF Ok(r) THEN [r EXCEPT !.block_tables[s] = <<>>] ELSE r

\* free(seq)
free(S, s) ==
    IF S.block_tables[s] = <<>> THEN S
    ELSE del_block_table(free_block_table(S, Range(S.block_tables[s])), s)

(***************************************************************************)
(* Scheduler                                                               *)
(***************************************************************************)
\* self.prompt_limit
prompt_limit == Min({max_model_len, max_num_batched_tokens})

RECURSIVE set_status(_, _, _)
set_status(S, seq_list, status) ==
    IF seq_list = <<>> THEN S
    ELSE set_status([S EXCEPT !.seqs[Head(seq_list)].status = status],
                    Tail(seq_list), status)

\* add_seq_group(seq_group) with a new group g of one WAITING prompt sequence
add_seq_group(S, g, prompt_len, bo) ==
    [S EXCEPT !.best_of[g] = bo,
              !.seqs[<<g, 1>>] = [status |-> "WAITING", len |-> prompt_len],
              !.waiting = Append(@, g)]

\* free_seq(seq)
free_seq(S, s) == free(S, s)

\* variant of the inner loop that marks every sequence of the group, the
\* finished ones too
abort_seqs_all(S, seq_list) == set_status(S, seq_list, "FINISHED_ABORTED")

\* the inner loop of abort_seq_group over the sequences of an aborted group
RECURSIVE abort_seqs(_, _)
abort_seqs(S, seq_list) ==
    IF seq_list = <<>> \/ ~Ok(S) THEN S
    ELSE IF is_finished(S, Head(seq_list))
         THEN abort_seqs(S, Tail(seq_list))
         ELSE abort_seqs(
                free_seq([S EXCEPT !.seqs[Head(seq_list)].status =
                                       "FINISHED_ABORTED"],
                         Head(seq_list)),
                Tail(seq_list))

\* abort_seq_group(request_id) for one request id: the first queue that holds
\* the group drops it and frees its unfinished sequences
abort_seq_group(S, g) ==
    IF g \in Range(S.waiting)
    THEN abort_seqs([S EXCEPT !.waiting = Remove(@, g)], get_seqs(S, g))
    ELSE IF g \in Range(S.running)
    THEN abort_seqs([S EXCEPT !.running = Remove(@, g)], get_seqs(S, g))
    ELSE IF g \in Range(S.swapped)
    THEN abort_seqs([S EXCEPT !.swapped = Remove(@, g)], get_seqs(S, g))
    ELSE S

\* the aborted groups of abort_seq_group, one after the other
RECURSIVE abort_each(_, _)
abort_each(S, aborted_groups) ==
    IF aborted_groups = <<>> THEN S
    ELSE abort_each(abort_seq_group(S, Head(aborted_groups)),
                    Tail(aborted_groups))

\* abort_seq_group(request_ids) for a set of request ids: the queues are
\* searched in the order waiting, running, swapped, each from its front
abort_seq_groups(S, request_ids) ==
    abort_each(S, SelectSeq(S.waiting \o S.running \o S.swapped,
                            LAMBDA g : g \in request_ids))

\* variant of free_finished_seq_groups that drops nothing
free_finished_seq_groups_skipped(S) == S

\* free_finished_seq_groups()
free_finished_seq_groups(S) ==
    [S EXCEPT !.running = SelectSeq(@, LAMBDA g : ~group_is_finished(S, g))]

\* "seq.status = RUNNING" for the sequences seq_list once r = allocate /
\* swap_in / swap_out has gone through
set_status_if_ok(r, seq_list, status) ==
    IF Ok(r) THEN set_status(r, seq_list, status) ELSE r

\* variant of _allocate that leaves the sequences WAITING
allocate_without_status(S, g) == allocate(S, g)

\* _allocate(seq_group)
_allocate(S, g) ==
    set_status_if_ok(allocate(S, g), get_seqs_status(S, g, "WAITING"), "RUNNING")

\* variant that writes "blocks_to_copy[src] = [dst]" also when src is in the
\* map already
record_copy_overwrites(A, r) ==
    [S |-> r.S,
     blocks_to_copy |->
        IF r.ret = <<>> THEN A.blocks_to_copy
        ELSE Append(SelectSeq(A.blocks_to_copy, LAMBDA c : c[1] # r.ret[1]),
                    r.ret)]

\* "if ret is not None: blocks_to_copy[src].append(dst)" with the result r of
\* append_slot
record_copy(A, r) ==
    [S |-> r.S,
     blocks_to_copy |-> IF r.ret = <<>> THEN A.blocks_to_copy
                        ELSE Append(A.blocks_to_copy, r.ret)]

\* _append_slot(seq_group, blocks_to_copy); A is [S, blocks_to_copy], the
\* copies are kept as a sequence of <<src, dst>> in the order they are made
RECURSIVE append_slots(_, _)
append_slots(A, seq_list) ==
    IF seq_list = <<>> \/ ~Ok(A.S) THEN A
    ELSE append_slots(record_copy(A, append_slot(A.S, Head(seq_list))),
                      Tail(seq_list))

_append_slot(S, g, blocks_to_copy) ==
    append_slots([S |-> S, blocks_to_copy |-> blocks_to_copy],
                 get_seqs_status(S, g, "RUNNING"))

\* "blocks_to_swap.update(mapping)" and the new status of the sequences
\* seq_list, with the result r of swap_in / swap_out
update_mapping(r, seq_list, status, blocks_to_swap) ==
    [S |-> set_status_if_ok(r.S, seq_list, status),
     blocks_to_swap |-> IF Ok(r.S) THEN blocks_to_swap \cup r.mapping
                        ELSE blocks_to_swap]

\* _swap_in(seq_group, blocks_to_swap_in)
_swap_in(S, g, blocks_to_swap_in) ==
    update_mapping(swap_in(S, g), get_seqs_status(S, g, "SWAPPED"), "RUNNING",
                   blocks_to_swap_in)

\* variant of _swap_out without the can_swap_out test
swap_out_unchecked(S, g, blocks_to_swap_out) ==
    update_mapping(swap_out(S, g), get_seqs_status(S, g, "RUNNING"),
                   "SWAPPED", blocks_to_swap_out)

\* _swap_out(seq_group, blocks_to_swap_out)
_swap_out(S, g, blocks_to_swap_out) ==
    IF ~can_swap_out(S, g)
    THEN [S |-> Raise(S, "RuntimeError"), blocks_to_swap |-> blocks_to_swap_out]
    ELSE update_mapping(swap_out(S, g), get_seqs_status(S, g, "RUNNING"),
                        "SWAPPED", blocks_to_swap_out)

\* variant that puts the preempted group at the back of waiting
insert_waiting_at_back(r, g) ==
    IF Ok(r) THEN [r EXCEPT !.waiting = Append(@, g)] ELSE r

\* "self.waiting.insert(0, seq_group)"
insert_waiting(r, g) ==
    IF Ok(r) THEN [r EXCEPT !.waiting = <<g>> \o @] ELSE r

\* variant that leaves the swapped-out group out of swapped
append_swapped_skipped(r, g) == r

\* "self.swapped.append(seq_group)"
append_swapped(r, g) ==
    [r EXCEPT !.S = IF Ok(r.S) THEN [r.S EXCEPT !.swapped = Append(@, g)]
                    ELSE r.S]

\* _preempt_by_recompute(seq_group)
_preempt_by_recompute(S, g) ==
    IF num_seqs_status(S, g, "RUNNING") # 1 THEN Raise(S, "AssertionError")
    ELSE insert_waiting(
           free(set_status(S, get_seqs_status(S, g, "RUNNING"), "WAITING"),
                get_seqs_status(S, g, "RUNNING")[1]),
           g)

\* _preempt_by_swap(seq_group, blocks_to_swap_out)
_preempt_by_swap(S, g, blocks_to_swap_out) ==
    append_swapped(_swap_out(S, g, blocks_to_swap_out), g)

\* _preempt(seq_group, blocks_to_swap_out) with preemption_mode None
_preempt(S, g, blocks_to_swap_out) ==
    IF get_max_num_running_seqs(S, g) = 1
    THEN [S |-> _preempt_by_recompute(S, g),
          blocks_to_swap |-> blocks_to_swap_out]
    ELSE _preempt_by_swap(S, g, blocks_to_swap_out)

\* sum(seq_group.get_max_num_running_seqs() for seq_group in self.running)
num_curr_seqs_of(S) ==
    SumSeq([i \in 1..Len(S.running) |->
              get_max_num_running_seqs(S, S.running[i])])

\* the three caps of the admission loop and of the swap-in loop
exceeds_max_num_batched_tokens(num_batched_tokens) ==
    num_batched_tokens > max_num_batched_tokens

\* variant without the cap on the number of sequences
exceeds_max_num_seqs_never(num_curr_seqs, num_new_seqs) == FALSE

exceeds_max_num_seqs(num_curr_seqs, num_new_seqs) ==
    num_curr_seqs + num_new_seqs > max_num_seqs

\* variant without the cap on the padding
exceeds_max_paddings_never(num_paddings) == FALSE

exceeds_max_paddings(num_paddings) ==
    num_paddings > max_paddings

\* the two places of the admission loop that ignore the group at the head of
\* waiting: its WAITING sequences become FINISHED_IGNORED, the group goes to
\* ignored_seq_groups and leaves waiting
\* variant that drops the group from waiting but leaves its status alone
ignore_seq_group_keeps_status(L, g) ==
    [L EXCEPT !.S = [L.S EXCEPT !.waiting = Tail(@)],
              !.ignored_seq_groups = Append(@, g)]

ignore_seq_group(L, g) ==
    [L EXCEPT !.S = [set_status(L.S, get_seqs_status(L.S, g, "WAITING"),
                                "FINISHED_IGNORED")
                       EXCEPT !.waiting = Tail(@)],
              !.ignored_seq_groups = Append(@, g)]

\* variant whose admitted group is not appended to running
admit_without_running(L, g, allocated, num_new_seqs, new_seq_lens) ==
    IF ~Ok(allocated) THEN [L EXCEPT !.S = allocated]
    ELSE [S |-> allocated,
          ignored_seq_groups |-> L.ignored_seq_groups,
          scheduled |-> Append(L.scheduled, g),
          num_curr_seqs |-> L.num_curr_seqs + num_new_seqs,
          seq_lens |-> new_seq_lens]

\* the end of one pass of the admission loop: the group g, popped from
\* waiting and allocated (the state `allocated`), goes to running and is
\* scheduled
admit(L, g, allocated, num_new_seqs, new_seq_lens) ==
    IF ~Ok(allocated) THEN [L EXCEPT !.S = allocated]
    ELSE [S |-> [allocated EXCEPT !.running = Append(@, g)],
          ignored_seq_groups |-> L.ignored_seq_groups,
          scheduled |-> Append(L.scheduled, g),
          num_curr_seqs |-> L.num_curr_seqs + num_new_seqs,
          seq_lens |-> new_seq_lens]

\* the admission loop "while self.waiting"; L is the record of its locals
\* [S, ignored_seq_groups, scheduled, num_curr_seqs, seq_lens]
RECURSIVE admit_waiting(_)
admit_waiting(L) ==
    IF L.S.waiting = <<>> \/ ~Ok(L.S) THEN L
    ELSE
    LET g == Head(L.S.waiting)
    IN  IF num_seqs_status(L.S, g, "WAITING") # 1
        THEN [L EXCEPT !.S = Raise(L.S, "AssertionError")]
        ELSE
        LET num_prompt_tokens  == L.S.seqs[get_seqs_status(L.S, g, "WAITING")[1]].len
            new_seq_lens       == Append(L.seq_lens, num_prompt_tokens)
            num_batched_tokens == Len(new_seq_lens) * MaxSeq(new_seq_lens)
            num_new_seqs       == get_max_num_running_seqs(L.S, g)
            num_paddings       == num_batched_tokens - SumSeq(new_seq_lens)
        IN  IF num_prompt_tokens > prompt_limit
            THEN admit_waiting(ignore_seq_group(L, g))
            ELSE IF can_allocate(L.S, g) = "LATER" THEN L
            ELSE IF can_allocate(L.S, g) = "NEVER"
            THEN admit_waiting(ignore_seq_group(L, g))
            ELSE IF exceeds_max_num_batched_tokens(num_batched_tokens) THEN L
            ELSE IF exceeds_max_num_seqs(L.num_curr_seqs, num_new_seqs) THEN L
            ELSE IF exceeds_max_paddings(num_paddings) THEN L
            ELSE admit_waiting(
                   admit(L, g, _allocate([L.S EXCEPT !.waiting = Tail(@)], g),
                         num_new_seqs, new_seq_lens))

\* the "else" of the inner loop: r is the result of _append_slot for g
slot_appended(D, g, r) ==
    [D EXCEPT !.S = r.S,
              !.blocks_to_copy = r.blocks_to_copy,
              !.running = IF Ok(r.S) THEN Append(@, g) ELSE @]

\* "preempted.append(seq_group)": r is the result of _preempt for g
group_preempted(D, g, r) ==
    [D EXCEPT !.S = r.S,
              !.blocks_to_swap_out = r.blocks_to_swap,
              !.preempted = IF Ok(r.S) THEN Append(@, g) ELSE @]

\* "victim_seq_group = self.running.pop(-1)" and its preemption
preempt_victim(D, victim_seq_group) ==
    group_preempted(D, victim_seq_group,
                    _preempt([D.S EXCEPT !.running = SubSeq(@, 1, Len(@) - 1)],
                             victim_seq_group, D.blocks_to_swap_out))

\* variant that preempts the group being served before any other group
reserve_slot_self_first(D, g) ==
    IF ~Ok(D.S) THEN D
    ELSE IF can_append_slot(D.S, g)
    THEN slot_appended(D, g, _append_slot(D.S, g, D.blocks_to_copy))
    ELSE group_preempted(D, g, _preempt(D.S, g, D.blocks_to_swap_out))

\* the inner loop "while not can_append_slot(seq_group)" with its else branch;
\* D is the record [S, running, preempted, blocks_to_swap_out, blocks_to_copy]
\* of the locals of the decode step, g the group popped from self.running
RECURSIVE reserve_slot(_, _)
reserve_slot(D, g) ==
    IF ~Ok(D.S) THEN D
    ELSE IF can_append_slot(D.S, g)
    THEN slot_appended(D, g, _append_slot(D.S, g, D.blocks_to_copy))
    ELSE IF D.S.running # <<>>
    THEN reserve_slot(preempt_victim(D, D.S.running[Len(D.S.running)]), g)
    ELSE group_preempted(D, g, _preempt(D.S, g, D.blocks_to_swap_out))

\* the outer loop "while self.running"
RECURSIVE reserve_slots(_)
reserve_slots(D) ==
    IF D.S.running = <<>> \/ ~Ok(D.S) THEN D
    ELSE reserve_slots(reserve_slot([D EXCEPT !.S.running = Tail(@)],
                                    Head(D.S.running)))

\* variant that tries the swap-in in every step
may_swap_in_always(preempted) == TRUE

\* "if not preempted": swap-in is tried only in a step without preemption
may_swap_in(preempted) == preempted = <<>>

\* one pass of the swap-in loop for the group g popped from swapped: r1 is
\* the result of _swap_in, r2 the result of _append_slot after it
swapped_in(W, g, r1, r2) ==
    [S |-> IF Ok(r2.S) THEN [r2.S EXCEPT !.running = Append(@, g)] ELSE r2.S,
     num_curr_seqs |-> W.num_curr_seqs + get_max_num_running_seqs(W.S, g),
     blocks_to_swap_in |-> r1.blocks_to_swap,
     blocks_to_copy |-> r2.blocks_to_copy]

swap_in_and_append(W, g, r1) ==
    swapped_in(W, g, r1, _append_slot(r1.S, g, W.blocks_to_copy))

\* the swap-in loop "while self.swapped"; W is the record
\* [S, num_curr_seqs, blocks_to_swap_in, blocks_to_copy]
RECURSIVE swap_in_swapped(_)
swap_in_swapped(W) ==
    IF W.S.swapped = <<>> \/ ~Ok(W.S) THEN W
    ELSE
    LET g == Head(W.S.swapped)
    IN  IF ~can_swap_in(W.S, g) THEN W
        ELSE IF exceeds_max_num_seqs(W.num_curr_seqs,
                                     get_max_num_running_seqs(W.S, g))
        THEN W
        ELSE swap_in_swapped(
               swap_in_and_append(
                 W, g,
                 _swap_in([W.S EXCEPT !.swapped = Tail(@)], g,
                          W.blocks_to_swap_in)))

\* SchedulerOutputs.__init__
SchedulerOutputs(scheduled, prompt_run, nbt, swap_in_map, swap_out_map, copies, ignored) ==
    [scheduled_seq_groups |-> scheduled,
     prompt_run           |-> prompt_run,
     num_batched_tokens   |-> nbt,
     blocks_to_swap_in    |-> swap_in_map,
     blocks_to_swap_out   |-> swap_out_map,
     blocks_to_copy       |-> copies,
     ignored_seq_groups   |-> ignored]

NoOutputs == SchedulerOutputs(<<>>, FALSE, 0, {}, {}, <<>>, <<>>)

\* "assert not (blocks_to_swap_in and blocks_to_swap_out)" of the constructor
construct(S, outputs) ==
    IF outputs.blocks_to_swap_in # {} /\ outputs.blocks_to_swap_out # {}
    THEN [S |-> Raise(S, "SwapInAndOutAssertionError"), outputs |-> NoOutputs]
    ELSE [S |-> S, outputs |-> outputs]

\* "self.running = running" and "self.swapped = sort_by_priority(swapped)"
\* after the reservation loop
after_reserve(D) ==
    [D.S EXCEPT !.running = D.running, !.swapped = sort_by_priority(@)]

\* the locals of the swap-in loop when it starts
before_swap_in(D, S) ==
    [S |-> S, num_curr_seqs |-> num_curr_seqs_of(S),
     blocks_to_swap_in |-> {}, blocks_to_copy |-> D.blocks_to_copy]

\* variant whose num_batched_tokens counts the groups of running
decode_outputs_counting_groups(D, W) ==
    IF ~Ok(W.S) THEN [S |-> W.S, outputs |-> NoOutputs]
    ELSE construct(W.S,
           SchedulerOutputs(
             W.S.running, FALSE, Len(W.S.running),
             W.blocks_to_swap_in, D.blocks_to_swap_out, W.blocks_to_copy,
             <<>>))

\* the SchedulerOutputs of a decode step
decode_outputs(D, W) ==
    IF ~Ok(W.S) THEN [S |-> W.S, outputs |-> NoOutputs]
    ELSE construct(W.S,
           SchedulerOutputs(
             W.S.running, FALSE,
             SumSeq([i \in 1..Len(W.S.running) |->
                       num_seqs_status(W.S, W.S.running[i], "RUNNING")]),
             W.blocks_to_swap_in, D.blocks_to_swap_out, W.blocks_to_copy,
             <<>>))

\* the swap-in part of the decode step
swap_in_step(D) ==
    IF ~Ok(D.S) THEN [S |-> D.S, outputs |-> NoOutputs]
    ELSE IF may_swap_in(D.preempted)
    THEN decode_outputs(D, swap_in_swapped(before_swap_in(D, after_reserve(D))))
    ELSE decode_outputs(D, before_swap_in(D, after_reserve(D)))

\* the decode step of _schedule (from "self.running = sort_by_priority")
decode_step(S) ==
    swap_in_step(
      reserve_slots([S |-> [S EXCEPT !.running = sort_by_priority(@)],
                     running |-> <<>>, preempted |-> <<>>,
                     blocks_to_swap_out |-> {}, blocks_to_copy |-> <<>>]))

\* the end of _schedule: a prompt run when the admission loop L scheduled or
\* ignored a group, a decode step otherwise
prompt_run_or_decode(L) ==
    IF ~Ok(L.S) THEN [S |-> L.S, outputs |-> NoOutputs]
    ELSE IF L.scheduled # <<>> \/ L.ignored_seq_groups # <<>>
    THEN construct(L.S,
           SchedulerOutputs(L.scheduled, TRUE,
                            IF L.seq_lens # <<>>
                            THEN Len(L.seq_lens) * MaxSeq(L.seq_lens)
                            ELSE 0,
                            {}, {}, <<>>, L.ignored_seq_groups))
    ELSE decode_step(L.S)

\* the locals of the admission loop when it starts
before_admission(S) ==
    [S |-> S, ignored_seq_groups |-> <<>>, scheduled |-> <<>>,
     num_curr_seqs |-> num_curr_seqs_of(S), seq_lens |-> <<>>]

\* variant that runs the admission loop whatever swapped holds
schedule_admits_always(S) ==
    prompt_run_or_decode(admit_waiting(before_admission(S)))

\* _schedule()
_schedule(S) ==
    IF S.swapped = <<>>
    THEN prompt_run_or_decode(admit_waiting(before_admission(S)))
    ELSE prompt_run_or_decode(before_admission(S))

(***************************************************************************)
(* The scheduler machine                                                   *)
(***************************************************************************)
State ==
    [waiting |-> waiting, running |-> running, swapped |-> swapped,
     best_of |-> best_of, seqs |-> seqs, block_tables |-> block_tables,
     gpu |-> gpu_allocator, cpu |-> cpu_allocator, fault |-> fault]

Install(S) ==
    /\ waiting' = S.waiting
    /\ running' = S.running
    /\ swapped' = S.swapped
    /\ best_of' = S.best_of
    /\ seqs' = S.seqs
    /\ block_tables' = S.block_tables
    /\ gpu_allocator' = S.gpu
    /\ cpu_allocator' = S.cpu
    /\ fault' = S.fault

\* the groups of a SchedulerOutputs that have a RUNNING sequence
ScheduledGroups(S, outputs) ==
    {g \in Range(outputs.scheduled_seq_groups) :
       num_seqs_status(S, g, "RUNNING") > 0}

NumCreated == Cardinality({g \in Groups : best_of[g] > 0})

\* a new request arrives: add_seq_group(seq_group)
AddSeqGroup ==
    /\ fault = "none"
    /\ NumCreated < MaxGroups
    /\ \E req \in Requests :
         Install(add_seq_group(State, NumCreated + 1, req[1], req[2]))
    /\ out' = NoOutputs
    /\ returned' = FALSE
    /\ UNCHANGED pending
    /\ UNCHANGED <<alloc_vars, query_vars, prefix_vars, evictor_vars,
                 refcounter_vars, device_vars, v2_vars>>

\* schedule() leaves with the result r of _schedule
Returns(r) ==
    /\ Install(r.S)
    /\ out' = r.outputs
    /\ returned' = Ok(r.S)
    /\ pending' = IF Ok(r.S) THEN ScheduledGroups(r.S, r.outputs) ELSE pending

\* schedule(): every scheduled group with a RUNNING sequence is due its tokens
Schedule ==
    /\ fault = "none"
    /\ Returns(_schedule(State))
    /\ UNCHANGED <<alloc_vars, query_vars, prefix_vars, evictor_vars,
                 refcounter_vars, device_vars, v2_vars>>

\* Sequence.append_token_id on one sequence, as the engine does it: a
\* sequence that reaches MaxSeqLen is length-capped and freed
RECURSIVE append_token_ids_of(_, _)
append_token_ids_of(S, seq_list) ==
    IF seq_list = <<>> \/ ~Ok(S) THEN S
    ELSE LET s  == Head(seq_list)
             S1 == [S EXCEPT !.seqs[s].len = @ + 1]
             S2 == IF S1.seqs[s].len >= MaxSeqLen
                   THEN free_seq([S1 EXCEPT !.seqs[s].status =
                                                "FINISHED_LENGTH_CAPPED"], s)
                   ELSE S1
         IN  append_token_ids_of(S2, Tail(seq_list))

\* the RUNNING sequences of the groups gs, group by group
RECURSIVE running_seqs_of(_, _)
running_seqs_of(S, gs) ==
    IF gs = {} THEN <<>>
    ELSE LET g == Min(gs)
         IN  get_seqs_status(S, g, "RUNNING") \o running_seqs_of(S, gs \ {g})

\* the engine appends the sampled token of the step to every RUNNING
\* sequence of every scheduled group
AppendTokenId ==
    /\ fault = "none"
    /\ pending # {}
    /\ Install(append_token_ids_of(State, running_seqs_of(State, pending)))
    /\ pending' = {}
    /\ out' = NoOutputs
    /\ returned' = FALSE
    /\ UNCHANGED <<alloc_vars, query_vars, prefix_vars, evictor_vars,
                 refcounter_vars, device_vars, v2_vars>>

\* the engine finds a sequence stopped and frees it: free_seq(seq)
FinishSeq(s) ==
    /\ fault = "none"
    /\ seqs[s].status = "RUNNING"
    /\ s[1] \notin pending
    /\ Install(free_seq([State EXCEPT !.seqs[s].status = "FINISHED_STOPPED"], s))
    /\ out' = NoOutputs
    /\ returned' = FALSE
    /\ UNCHANGED pending
    /\ UNCHANGED <<alloc_vars, query_vars, prefix_vars, evictor_vars,
                 refcounter_vars, device_vars, v2_vars>>

\* the engine forks a sequence of a group that has fewer than best_of
\* sequences: fork_seq(parent_seq, child_seq)
ForkSeq(parent_seq) ==
    /\ fault = "none"
    /\ seqs[parent_seq].status = "RUNNING"
    /\ parent_seq[1] \notin pending
    /\ num_seqs(State, parent_seq[1]) < best_of[parent_seq[1]]
    /\ LET g == parent_seq[1]
           child_seq == <<g, num_seqs(State, g) + 1>>
       IN  Install(fork([State EXCEPT !.seqs[child_seq] = seqs[parent_seq]],
                        parent_seq, child_seq))
    /\ out' = NoOutputs
    /\ returned' = FALSE
    /\ UNCHANGED pending
    /\ UNCHANGED <<alloc_vars, query_vars, prefix_vars, evictor_vars,
                 refcounter_vars, device_vars, v2_vars>>

\* free_finished_seq_groups()
FreeFinishedSeqGroups ==
    /\ fault = "none"
    /\ Install(free_finished_seq_groups(State))
    /\ out' = NoOutputs
    /\ returned' = FALSE
    /\ UNCHANGED pending
    /\ UNCHANGED <<alloc_vars, query_vars, prefix_vars, evictor_vars,
                 refcounter_vars, device_vars, v2_vars>>

\* abort_seq_group(request_id) of a request the engine has created
AbortSeqGroup(g) ==
    /\ fault = "none"
    /\ best_of[g] > 0
    /\ Install(abort_seq_group(State, g))
    /\ pending' = pending \ {g}
    /\ out' = NoOutputs
    /\ returned' = FALSE
    /\ UNCHANGED <<alloc_vars, query_vars, prefix_vars, evictor_vars,
                 refcounter_vars, device_vars, v2_vars>>

InitSched ==
    /\ waiting = <<>>
    /\ running = <<>>
    /\ swapped = <<>>
    /\ best_of = [g \in Groups |-> 0]
    /\ seqs = [s \in SeqIds |-> NoSeq]
    /\ block_tables = [s \in SeqIds |-> <<>>]
    /\ gpu_allocator = NaiveBlockAllocator(GpuIds)
    /\ cpu_allocator = NaiveBlockAllocator(CpuIds)
    /\ out = NoOutputs
    /\ pending = {}
    /\ returned = FALSE
    /\ fault = "none"

(***************************************************************************)
(* can_allocate as a function of the configuration and the totals it reads *)
(* (SpecCanAllocate).  query holds the configuration of one block manager  *)
(* (num_total_gpu_blocks, watermark in percent, block_sliding_window) and  *)
(* the last can_allocate call on it.                                       *)
(***************************************************************************)
\* watermark as a percentage: 0.0, 0.01 (the default) and 0.5
Watermarks == {0, 1, 50}

\* self.watermark_blocks = int(watermark * num_gpu_blocks)
watermark_blocks_of(watermark, total) == (watermark * total) \div 100

\* block_sliding_window = sliding_window // block_size, None if not configured
SlidingWindows == {None} \cup (1..MaxWindow)

NoQuery ==
    [total |-> 1, watermark |-> 0, block_sliding_window |-> None,
     free |-> 0, nblocks |-> 0, status |-> "none"]

InitQuery == query = NoQuery

InitQueries ==
    \E total \in 1..MaxTotalBlocks, watermark \in Watermarks,
       w \in SlidingWindows :
        query = [NoQuery EXCEPT !.total = total, !.watermark = watermark,
                                !.block_sliding_window = w]

\* one can_allocate(seq_group) call: the prompt of the group has nblocks
\* logical blocks and the GPU allocator has free of its slots free
CanAllocate ==
    /\ \E num_free \in 0..query.total, nblocks \in 1..MaxPromptBlocks :
        query' = [query EXCEPT
                    !.free = num_free,
                    !.nblocks = nblocks,
                    !.status = can_allocate_status(
                                   query.total, num_free, nblocks,
                                   watermark_blocks_of(query.watermark,
                                                       query.total),
                                   query.block_sliding_window)]
    /\ UNCHANGED <<alloc_vars, sched_vars, prefix_vars, evictor_vars,
                 refcounter_vars, device_vars, v2_vars>>

NextCanAllocate == CanAllocate

(***************************************************************************)
(* PrefixCachingBlockAllocator and its PrefixCachingBlock objects          *)
(* (SpecPrefix).  The allocator is a record                                *)
(*   free_block_indices  the FreeSet of slots without content              *)
(*   refcounts           the RefCounter over all slots                     *)
(*   cached_blocks       the PrefixCacheIndex: content hash -> slot        *)
(*   evictor             the cached slots nobody references                *)
(* A block object is a record of its slot and its content hash.            *)
(***************************************************************************)
PrefixBlockIds == 0..(NumPrefixBlocks - 1)
PrefixHandles == 1..MaxPrefixObjs
\* the token lists of a full block
PrefixFullBlocks == [1..PrefixBlockSize -> 0..MaxPrefixToken]

\* content_hash of a block that is not full or whose predecessor has none
NoHash == <<>>

NoPrefixBlock ==
    [exists |-> FALSE, physical_block_index |-> None, content_hash |-> NoHash]

\* The hash of a block is determined by whether it is the first block, the
\* hash of its predecessor and its own tokens; two blocks have the same hash
\* exactly when these agree, so the hash is represented by the sequence of
\* the token lists of the chain up to and including the block.
hash_block_tokens(is_first_block, prev_block_hash, cur_block_token_ids) ==
    IF is_first_block
    THEN <<cur_block_token_ids>>
    ELSE Append(prev_block_hash, cur_block_token_ids)

\* variant of content_hash that treats a block behind an unhashed predecessor
\* as the first block of its chain
content_hash_ignoring_predecessor(B, prev_block, token_ids) ==
    IF Len(token_ids) # PrefixBlockSize THEN NoHash
    ELSE IF prev_block = None \/ B[prev_block].content_hash = NoHash
         THEN hash_block_tokens(TRUE, NoHash, token_ids)
         ELSE hash_block_tokens(FALSE, B[prev_block].content_hash,
                                token_ids)

\* PrefixCachingBlock.content_hash of a new block with the given tokens:
\* defined only if the block is full and is first or follows a hashed block
content_hash(B, prev_block, token_ids) ==
    IF Len(token_ids) # PrefixBlockSize THEN NoHash
    ELSE IF prev_block = None
         THEN hash_block_tokens(TRUE, NoHash, token_ids)
         ELSE IF B[prev_block].content_hash = NoHash
              THEN NoHash
              ELSE hash_block_tokens(FALSE, B[prev_block].content_hash,
                                     token_ids)

PrefixCachingBlockAllocator(block_ids) ==
    [free_block_indices |-> block_ids,
     refcounts          |-> [i \in block_ids |-> 0],
     cached_blocks      |-> [H \in {} |-> None],
     evictor            |-> {}]

\* lookup that never finds a cached block
cached_block_index_miss(a, H) == None

\* self._cached_blocks.get(block.content_hash, default=None)
cached_block_index(a, H) ==
    IF H \in DOMAIN a.cached_blocks THEN a.cached_blocks[H] ELSE None

\* the slots the fallback path may take: a slot of the FreeSet if there is
\* one, else a slot of the evictor (whichever its clock makes the oldest),
\* else none
FallbackChoices(a) ==
    IF a.free_block_indices # {} THEN a.free_block_indices
    ELSE IF a.evictor # {} THEN a.evictor
    ELSE {None}

\* variant of the eviction that leaves the hashes of the evicted slot in the
\* PrefixCacheIndex
remove_stale_hash_skipped(cached_blocks, s) == cached_blocks

\* the PrefixCacheIndex without the hashes that point at slot s
remove_stale_hash(cached_blocks, s) ==
    [H \in {x \in DOMAIN cached_blocks : cached_blocks[x] # s} |->
        cached_blocks[H]]

\* fallback path taking slot s of FallbackChoices(a), s # None
fallback(a, s) ==
    IF s \in a.free_block_indices
    THEN [a EXCEPT !.free_block_indices = @ \ {s}, !.refcounts[s] = 1]
    ELSE [a EXCEPT !.evictor = @ \ {s},
                   !.cached_blocks = remove_stale_hash(@, s),
                   !.refcounts[s] = 1]

\* install slot s at hash H in the PrefixCacheIndex
install(a, H, s) ==
    [a EXCEPT !.cached_blocks =
        [x \in DOMAIN @ \cup {H} |-> IF x = H THEN s ELSE @[x]]]

\* allocate_immutable when hash H is cached at slot s
reuse_cached(a, s) ==
    IF a.refcounts[s] = 0
    THEN [a EXCEPT !.evictor = @ \ {s}, !.refcounts[s] = 1]
    ELSE [a EXCEPT !.refcounts[s] = @ + 1]

\* allocate_immutable for hash H # NoHash; s is the slot the fallback path
\* takes if H is not cached
allocate_immutable_hash(a, H, s) ==
    IF cached_block_index(a, H) # None
    THEN [a |-> reuse_cached(a, cached_block_index(a, H)),
          block_index |-> cached_block_index(a, H), result |-> "ok"]
    ELSE IF s = None
         THEN [a |-> a, block_index |-> None, result |-> "NoFreeBlocksError"]
         ELSE [a |-> install(fallback(a, s), H, s),
               block_index |-> s, result |-> "ok"]

\* allocate_mutable; s is the slot the fallback path takes
allocate_mutable_slot(a, s) ==
    IF s = None
    THEN [a |-> a, block_index |-> None, result |-> "NoFreeBlocksError"]
    ELSE [a |-> fallback(a, s), block_index |-> s, result |-> "ok"]

\* variant of free that returns the slot to the FreeSet at every call, also
\* while other blocks still reference it
prefix_free_always_releases(a, s, H) ==
    [a EXCEPT !.refcounts[s] = @ - 1,
              !.free_block_indices = @ \cup {s}]

\* free(block) for a block bound to slot s with content hash H
prefix_free(a, s, H) ==
    IF a.refcounts[s] > 1
    THEN [a EXCEPT !.refcounts[s] = @ - 1]
    ELSE IF H # NoHash
         THEN [a EXCEPT !.refcounts[s] = 0, !.evictor = @ \cup {s}]
         ELSE [a EXCEPT !.refcounts[s] = 0,
                        !.free_block_indices = @ \cup {s}]

\* gpu_allocator.contains_block(block_hash): the hash is in the
\* PrefixCacheIndex
contains_block(a, H) == cached_block_index(a, H) # None

\* gpu_allocator.update_hash(block_hash, block): register H -> slot of the
\* block in the PrefixCacheIndex
update_hash(a, H, s) == install(a, H, s)

\* fork of a block bound to slot s: one more reference to the slot
prefix_fork(a, s) == [a EXCEPT !.refcounts[s] = @ + 1]

\* variant of the promotion that redirects only to a slot somebody references
\* and otherwise registers the hash at the block's own slot
promote_registers_parked_hash(a, last_block, new_hash) ==
    IF contains_block(a, new_hash)
         /\ a.refcounts[cached_block_index(a, new_hash)] > 0
    THEN allocate_immutable_hash(prefix_free(a, last_block, NoHash),
                                 new_hash, None)
    ELSE [a |-> update_hash(a, new_hash, last_block),
          block_index |-> last_block, result |-> "ok"]

\* _promote_last_block(seq, last_block) with new_hash the hash of the block
\* that has become full: a cached hash frees the block's slot and allocates
\* the cached slot, a new hash is registered at the block's slot
_promote_last_block(a, last_block, new_hash) ==
    IF contains_block(a, new_hash)
    THEN allocate_immutable_hash(prefix_free(a, last_block, NoHash),
                                 new_hash, None)
    ELSE [a |-> update_hash(a, new_hash, last_block),
          block_index |-> last_block, result |-> "ok"]

\* "self.gpu_allocator.free(last_block)" after the allocation r of the copy
free_last_block(r, last_block) ==
    IF r.result = "ok"
    THEN [r EXCEPT !.a = prefix_free(r.a, last_block, NoHash)]
    ELSE r

\* append_slot for the token that fills the last block: a block nobody
\* shares is promoted, a shared one is copied on write (the copy is
\* allocated with the hash of the full block, s is the slot the fallback path
\* takes, then the shared slot is released)
prefix_append_slot(a, last_block, block_hash, s) ==
    IF a.refcounts[last_block] = 1
    THEN _promote_last_block(a, last_block, block_hash)
    ELSE free_last_block(allocate_immutable_hash(a, block_hash, s),
                         last_block)

\* how an append_slot on slot last_block with hash H ends in allocator a
append_slot_outcome(a, last_block, H, r) ==
    IF r.result # "ok" THEN r.result
    ELSE IF a.refcounts[last_block] # 1 THEN "copied"
    ELSE IF ~contains_block(a, H) THEN "promoted"
    ELSE IF a.refcounts[cached_block_index(a, H)] = 0 THEN "revived"
    ELSE "redirected"

\* slots a novel block can take
prefix_num_free_blocks(a) ==
    Cardinality(a.free_block_indices) + Cardinality(a.evictor)

LivePrefixHandles == {h \in PrefixHandles : pblocks[h].exists}
NewPrefixHandle == Min(PrefixHandles \ LivePrefixHandles)

\* the state after an allocation r that made block object h with hash H
PrefixAllocated(op, h, H, r) ==
    /\ prefix' = r.a
    /\ pblocks' = IF r.result = "ok"
                  THEN [pblocks EXCEPT ![h] =
                          [exists |-> TRUE,
                           physical_block_index |-> r.block_index,
                           content_hash |-> H]]
                  ELSE pblocks
    /\ prefix_last' = [op |-> op, h |-> h, content_hash |-> H,
                       result |-> r.result]

\* allocate_immutable(prev_block, token_ids) with the hash H of the new block
PrefixAllocateImmutableHash(h, H) ==
    IF H = NoHash
    THEN /\ prefix_last' = [op |-> "allocate_immutable", h |-> h,
                            content_hash |-> H, result |-> "AssertionError"]
         /\ UNCHANGED <<prefix, pblocks>>
    ELSE \E s \in FallbackChoices(prefix) :
            PrefixAllocated("allocate_immutable", h, H,
                            allocate_immutable_hash(prefix, H, s))

PrefixAllocateImmutable ==
    /\ LivePrefixHandles # PrefixHandles
    /\ \E prev_block \in {None} \cup LivePrefixHandles, token_ids \in PrefixFullBlocks :
        /\ prev_block # None =>
              Len(pblocks[prev_block].content_hash) < MaxChainLen
        /\ PrefixAllocateImmutableHash(
               NewPrefixHandle, content_hash(pblocks, prev_block, token_ids))
    /\ UNCHANGED <<alloc_vars, sched_vars, query_vars, evictor_vars,
                 refcounter_vars, device_vars, v2_vars>>

PrefixAllocateMutable ==
    /\ LivePrefixHandles # PrefixHandles
    /\ \E s \in FallbackChoices(prefix) :
        PrefixAllocated("allocate_mutable", NewPrefixHandle, NoHash,
                        allocate_mutable_slot(prefix, s))
    /\ UNCHANGED <<alloc_vars, sched_vars, query_vars, evictor_vars,
                 refcounter_vars, device_vars, v2_vars>>

PrefixFree(h) ==
    /\ pblocks[h].exists
    /\ prefix' = prefix_free(prefix, pblocks[h].physical_block_index,
                             pblocks[h].content_hash)
    /\ pblocks' = [pblocks EXCEPT ![h] = NoPrefixBlock]
    /\ prefix_last' = [op |-> "free", h |-> h,
                       content_hash |-> pblocks[h].content_hash,
                       result |-> "ok"]
    /\ UNCHANGED <<alloc_vars, sched_vars, query_vars, evictor_vars,
                 refcounter_vars, device_vars, v2_vars>>

\* the content hashes of full blocks at depth 1..MaxChainLen of a sequence
PrefixHashes ==
    UNION {[1..n -> PrefixFullBlocks] : n \in 1..MaxChainLen}

\* the state after append_slot r on block object h with hash H
PrefixAppended(h, H, r) ==
    /\ prefix' = r.a
    /\ pblocks' = IF r.result = "ok"
                  THEN [pblocks EXCEPT ![h].physical_block_index = r.block_index,
                                       ![h].content_hash = H]
                  ELSE pblocks
    /\ prefix_last' = [op |-> "append_slot", h |-> h, content_hash |-> H,
                       result |-> append_slot_outcome(
                                    prefix, pblocks[h].physical_block_index,
                                    H, r)]

\* append_slot(seq) when the new token fills the last block h of the
\* sequence; H is the hash the sequence gives for the block
PrefixAppendSlot(h) ==
    /\ pblocks[h].exists
    /\ pblocks[h].content_hash = NoHash
    /\ \E H \in PrefixHashes, s \in FallbackChoices(prefix) :
          PrefixAppended(h, H,
              prefix_append_slot(prefix, pblocks[h].physical_block_index,
                                 H, s))
    /\ UNCHANGED <<alloc_vars, sched_vars, query_vars, evictor_vars,
                 refcounter_vars, device_vars, v2_vars>>

\* fork of the block h: a new block object on the same slot
PrefixFork(h) ==
    /\ pblocks[h].exists
    /\ LivePrefixHandles # PrefixHandles
    /\ prefix' = prefix_fork(prefix, pblocks[h].physical_block_index)
    /\ pblocks' = [pblocks EXCEPT ![NewPrefixHandle] = pblocks[h]]
    /\ prefix_last' = [op |-> "fork", h |-> NewPrefixHandle,
                       content_hash |-> pblocks[h].content_hash,
                       result |-> "ok"]
    /\ UNCHANGED <<alloc_vars, sched_vars, query_vars, evictor_vars,
                 refcounter_vars, device_vars, v2_vars>>

InitPrefix ==
    /\ prefix = PrefixCachingBlockAllocator(PrefixBlockIds)
    /\ pblocks = [h \in PrefixHandles |-> NoPrefixBlock]
    /\ prefix_last = [op |-> "init", h |-> 0, content_hash |-> NoHash,
                      result |-> "ok"]

NextPrefix ==
    \/ PrefixAllocateImmutable
    \/ PrefixAllocateMutable
    \/ \E h \in PrefixHandles : PrefixFree(h)
    \/ \E h \in PrefixHandles : PrefixAppendSlot(h)
    \/ \E h \in PrefixHandles : PrefixFork(h)

(***************************************************************************)
(* LRUEvictor (SpecEvictor).  free_table is the OrderedDict of the evictor *)
(* as the sequence of its Block values in insertion order; a Block is a    *)
(* record of content_hash, num_hashed_tokens and last_accessed.            *)
(***************************************************************************)
\* position of the key block_hash in the table, 0 if it is not a key
position(ft, block_hash) ==
    IF \E k \in 1..Len(ft) : ft[k].content_hash = block_hash
    THEN CHOOSE k \in 1..Len(ft) : ft[k].content_hash = block_hash
    ELSE 0

\* free_table.pop(key) for the key at position k
pop(ft, k) == SubSeq(ft, 1, k - 1) \o SubSeq(ft, k + 1, Len(ft))

\* the loop of evict that prefers the block with fewer hashed tokens
RECURSIVE evict_scan_keeps_longest(_, _, _)
evict_scan_keeps_longest(ft, k, e) ==
    IF k > Len(ft) THEN e
    ELSE IF ft[e].last_accessed < ft[k].last_accessed THEN e
    ELSE IF ft[e].num_hashed_tokens > ft[k].num_hashed_tokens
         THEN evict_scan_keeps_longest(ft, k + 1, k)
         ELSE evict_scan_keeps_longest(ft, k + 1, e)

\* the loop of evict over the items from position k on; e is the position of
\* evicted_block so far
RECURSIVE evict_scan(_, _, _)
evict_scan(ft, k, e) ==
    IF k > Len(ft) THEN e
    ELSE IF ft[e].last_accessed < ft[k].last_accessed THEN e
    ELSE IF ft[e].num_hashed_tokens < ft[k].num_hashed_tokens
         THEN evict_scan(ft, k + 1, k)
         ELSE evict_scan(ft, k + 1, e)

\* LRUEvictor.add: an existing key keeps its place in the OrderedDict
add(ft, block_hash, num_hashed_tokens, last_accessed) ==
    IF position(ft, block_hash) = 0
    THEN Append(ft, [content_hash |-> block_hash,
                     num_hashed_tokens |-> num_hashed_tokens,
                     last_accessed |-> last_accessed])
    ELSE [ft EXCEPT ![position(ft, block_hash)] =
            [content_hash |-> block_hash,
             num_hashed_tokens |-> num_hashed_tokens,
             last_accessed |-> last_accessed]]

\* LRUEvictor.evict
Evict ==
    /\ IF Len(free_table) = 0
       THEN /\ evictor_last' = [op |-> "evict", content_hash |-> 0,
                                num_hashed_tokens |-> 0, last_accessed |-> 0,
                                result |-> "ValueError"]
            /\ UNCHANGED free_table
       ELSE /\ free_table' = pop(free_table, evict_scan(free_table, 1, 1))
            /\ evictor_last' =
                 [op |-> "evict",
                  content_hash |->
                      free_table[evict_scan(free_table, 1, 1)].content_hash,
                  num_hashed_tokens |->
                      free_table[evict_scan(free_table, 1, 1)].num_hashed_tokens,
                  last_accessed |->
                      free_table[evict_scan(free_table, 1, 1)].last_accessed,
                  result |-> "ok"]
    /\ UNCHANGED <<alloc_vars, sched_vars, query_vars, prefix_vars, refcounter_vars, device_vars, v2_vars>>

\* LRUEvictor.add(content_hash, num_hashed_tokens, last_accessed)
Add ==
    /\ \E block_hash \in 1..NumHashes, num_hashed_tokens \in 1..MaxNumHashed,
          last_accessed \in 0..MaxClock :
        /\ free_table' = add(free_table, block_hash, num_hashed_tokens,
                             last_accessed)
        /\ evictor_last' = [op |-> "add", content_hash |-> block_hash,
                            num_hashed_tokens |-> num_hashed_tokens,
                            last_accessed |-> last_accessed, result |-> "ok"]
    /\ UNCHANGED <<alloc_vars, sched_vars, query_vars, prefix_vars, refcounter_vars, device_vars, v2_vars>>

\* LRUEvictor.remove(content_hash)
EvictorRemove ==
    /\ \E block_hash \in 1..NumHashes :
        /\ free_table' = IF position(free_table, block_hash) = 0
                         THEN free_table
                         ELSE pop(free_table, position(free_table, block_hash))
        /\ evictor_last' = [op |-> "remove", content_hash |-> block_hash,
                            num_hashed_tokens |-> 0, last_accessed |-> 0,
                            result |-> IF position(free_table, block_hash) = 0
                                       THEN "ValueError" ELSE "ok"]
    /\ UNCHANGED <<alloc_vars, sched_vars, query_vars, prefix_vars, refcounter_vars, device_vars, v2_vars>>

InitEvictor ==
    /\ free_table = <<>>
    /\ evictor_last = [op |-> "init", content_hash |-> 0,
                       num_hashed_tokens |-> 0, last_accessed |-> 0,
                       result |-> "ok"]

NextEvictor ==
    \/ Add
    \/ EvictorRemove
    \/ Evict

(***************************************************************************)
(* RefCounter on its own (SpecRefCounter): refcounter.refcounts is         *)
(* RefCounter._refcounts over the indices BlockIds; the calls also name    *)
(* the index NumBlocks, which is not a key.                                *)
(***************************************************************************)
\* RefCounter.incr(block_index) with its two assertions
RefCounterIncr ==
    /\ \E block_index \in BlockIds \cup {NumBlocks} :
        IF block_index \notin DOMAIN refcounter.refcounts
           \/ refcounter.refcounts[block_index] < 0
        THEN /\ refcounter_last' = [op |-> "incr", block_index |-> block_index,
                                    result |-> None, raised |-> "AssertionError"]
             /\ UNCHANGED refcounter
        ELSE /\ refcounter.refcounts[block_index] < MaxRefcount
             /\ refcounter' = incr(refcounter, block_index)
             /\ refcounter_last' =
                  [op |-> "incr", block_index |-> block_index,
                   result |-> get(incr(refcounter, block_index), block_index),
                   raised |-> "none"]
    /\ UNCHANGED <<alloc_vars, sched_vars, query_vars, prefix_vars,
                 evictor_vars, device_vars, v2_vars>>

\* RefCounter.decr(block_index) with its two assertions
RefCounterDecr ==
    /\ \E block_index \in BlockIds \cup {NumBlocks} :
        IF block_index \notin DOMAIN refcounter.refcounts
           \/ ~(refcounter.refcounts[block_index] > 0)
        THEN /\ refcounter_last' = [op |-> "decr", block_index |-> block_index,
                                    result |-> None, raised |-> "AssertionError"]
             /\ UNCHANGED refcounter
        ELSE /\ refcounter' = decr(refcounter, block_index)
             /\ refcounter_last' =
                  [op |-> "decr", block_index |-> block_index,
                   result |-> get(decr(refcounter, block_index), block_index),
                   raised |-> "none"]
    /\ UNCHANGED <<alloc_vars, sched_vars, query_vars, prefix_vars,
                 evictor_vars, device_vars, v2_vars>>

\* RefCounter.__init__(all_block_indices)
InitRefCounter ==
    /\ refcounter = [refcounts |-> [i \in BlockIds |-> 0]]
    /\ refcounter_last = [op |-> "init", block_index |-> 0, result |-> 0,
                         raised |-> "none"]

NextRefCounter ==
    \/ RefCounterIncr
    \/ RefCounterDecr

(***************************************************************************)
(* CpuGpuBlockAllocator (SpecDevice): two NaiveBlockAllocators, one per    *)
(* device, over disjoint ranges of block indices.  A block object of the   *)
(* client is a record of its slot and of the device it was requested on.   *)
(***************************************************************************)
DeviceGpuIds == 0..(NumDeviceGpuBlocks - 1)
DeviceCpuIds ==
    NumDeviceGpuBlocks..(NumDeviceGpuBlocks + NumDeviceCpuBlocks - 1)
Devices == {"gpu", "cpu"}
DeviceHandles == 1..MaxDeviceObjs

NoDeviceBlock ==
    [exists |-> FALSE, physical_block_index |-> None, device |-> "none"]

\* CpuGpuBlockAllocator.create: GPU uses [0, G), CPU uses [G, G + C)
CpuGpuBlockAllocator(gpu_ids, cpu_ids) ==
    [gpu |-> NaiveBlockAllocator(gpu_ids),
     cpu |-> NaiveBlockAllocator(cpu_ids)]

\* the allocator a block index belongs to: free(block) is routed by it
allocator_of(d, block_index) ==
    IF block_index \in DOMAIN d.gpu.refcounts THEN "gpu" ELSE "cpu"

\* allocate_mutable / allocate_immutable(prev, device) taking the free slot
\* block_index of the device's allocator
device_allocate(d, device, block_index) ==
    [d EXCEPT ![device] = allocate_new_block(@, block_index)]

\* free(block)
device_free(d, block_index) ==
    [d EXCEPT ![allocator_of(d, block_index)] =
                 free_block_index(@, block_index)]

LiveDeviceHandles == {h \in DeviceHandles : device_blocks[h].exists}

\* allocate_mutable(prev_block=None, device) and
\* allocate_immutable(prev_block=None, token_ids, device)
DeviceAllocate(op, device) ==
    /\ LiveDeviceHandles # DeviceHandles
    /\ IF device_allocators[device].free_block_indices = {}
       THEN /\ device_last' = [op |-> op, h |-> 0, device |-> device,
                               result |-> "NoFreeBlocksError"]
            /\ UNCHANGED <<device_allocators, device_blocks>>
       ELSE \E block_index \in device_allocators[device].free_block_indices :
              /\ device_allocators' =
                   device_allocate(device_allocators, device, block_index)
              /\ device_blocks' =
                   [device_blocks EXCEPT
                      ![Min(DeviceHandles \ LiveDeviceHandles)] =
                         [exists |-> TRUE,
                          physical_block_index |-> block_index,
                          device |-> device]]
              /\ device_last' =
                   [op |-> op, h |-> Min(DeviceHandles \ LiveDeviceHandles),
                    device |-> device, result |-> "ok"]
    /\ UNCHANGED <<alloc_vars, sched_vars, query_vars, prefix_vars,
                 evictor_vars, refcounter_vars, v2_vars>>

\* free(block) of a block the client holds
DeviceFree(h) ==
    /\ device_blocks[h].exists
    /\ device_allocators' =
         device_free(device_allocators, device_blocks[h].physical_block_index)
    /\ device_blocks' = [device_blocks EXCEPT ![h] = NoDeviceBlock]
    /\ device_last' = [op |-> "free", h |-> h,
                       device |-> device_blocks[h].device, result |-> "ok"]
    /\ UNCHANGED <<alloc_vars, sched_vars, query_vars, prefix_vars,
                 evictor_vars, refcounter_vars, v2_vars>>

InitDevice ==
    /\ device_allocators = CpuGpuBlockAllocator(DeviceGpuIds, DeviceCpuIds)
    /\ device_blocks = [h \in DeviceHandles |-> NoDeviceBlock]
    /\ device_last = [op |-> "init", h |-> 0, device |-> "none",
                      result |-> "ok"]

NextDevice ==
    \/ \E device \in Devices : DeviceAllocate("allocate_mutable", device)
    \/ \E device \in Devices : DeviceAllocate("allocate_immutable", device)
    \/ \E h \in DeviceHandles : DeviceFree(h)

(***************************************************************************)
(* BlockSpaceManagerV2 with its BlockTables (SpecBlockTable).  The manager *)
(* is the record block_manager_v2 with the fields                          *)
(*   block_allocator  the CpuGpuBlockAllocator (allocator_type "naive")    *)
(*   block_tables     seq_id -> the blocks of the table, <<>> = no entry   *)
(*   fault            "none" or the exception a call raised                *)
(* A block of a table is a NaiveBlock whose prev_block is the position of  *)
(* its predecessor in the table.  A table under construction is the record *)
(* T = [a, blocks, result]: the GPU allocator, the blocks so far and how   *)
(* the last allocator call ended.                                          *)
(***************************************************************************)
V2GpuIds == 0..(NumV2GpuBlocks - 1)
V2SeqIds == 1..2
V2TokenIds == 0..MaxV2Token

\* the token lists of length lo..hi
RECURSIVE TokenLists(_, _)
TokenLists(lo, hi) ==
    IF hi < lo THEN {}
    ELSE [1..hi -> V2TokenIds] \cup TokenLists(lo, hi - 1)

\* BlockTable.allocate: the tokens are cut into chunks of block_size, the
\* last one possibly short, and every chunk gets a block chained to the one
\* before it: allocate_immutable for a full chunk, allocate_mutable and
\* append_token_ids for a short one (for the naive allocator both are
\* allocate_mutable followed by block.append_token_ids)
RECURSIVE allocate_blocks_for_token_ids(_, _)
allocate_blocks_for_token_ids(T, token_ids) ==
    IF token_ids = <<>> \/ T.result # "ok" THEN T
    ELSE IF T.a.free_block_indices = {}
    THEN [T EXCEPT !.result = "NoFreeBlocksError"]
    ELSE LET n  == Min({BlockSize, Len(token_ids)})
             i  == Min(T.a.free_block_indices)
             a1 == allocate_new_block(T.a, i)
             r  == append_token_ids(a1, NaiveBlock(Len(T.blocks), <<>>, i),
                                    SubSeq(token_ids, 1, n),
                                    Min(FreeChoices(a1)))
         IN  allocate_blocks_for_token_ids(
               [a |-> r.a, blocks |-> Append(T.blocks, r.blk),
                result |-> r.result],
               SubSeq(token_ids, n + 1, Len(token_ids)))

\* variant that starts a new block without filling the last one
append_token_ids_in_new_blocks(T, token_ids) ==
    allocate_blocks_for_token_ids(T, token_ids)

\* BlockTable.append_token_ids: the last block is filled first, further
\* blocks are allocated for the tokens that remain
block_table_append_token_ids(T, token_ids) ==
    LET last == T.blocks[Len(T.blocks)]
        n    == Min({num_empty_slots(last), Len(token_ids)})
        r    == append_token_ids(T.a, last, SubSeq(token_ids, 1, n),
                                 Min(FreeChoices(T.a)))
    IN  IF n = 0 THEN allocate_blocks_for_token_ids(T, token_ids)
        ELSE allocate_blocks_for_token_ids(
               [a |-> r.a,
                blocks |-> [T.blocks EXCEPT ![Len(T.blocks)] = r.blk],
                result |-> r.result],
               SubSeq(token_ids, n + 1, Len(token_ids)))

\* BlockTable.free: every block is freed, the last one first
RECURSIVE block_table_free(_, _)
block_table_free(a, table) ==
    IF table = <<>> THEN a
    ELSE block_table_free(
           free_block_index(a, table[Len(table)].physical_block_index),
           SubSeq(table, 1, Len(table) - 1))

\* the manager after a call that built or changed the table of seq: the
\* table is stored when the call returned, the exception is kept otherwise
table_stored(M, seq, T) ==
    IF T.result = "ok"
    THEN [M EXCEPT !.block_allocator.gpu = T.a, !.block_tables[seq] = T.blocks]
    ELSE [M EXCEPT !.block_allocator.gpu = T.a, !.fault = T.result]

\* BlockSpaceManagerV2.allocate of a group with one waiting sequence
V2Allocate ==
    /\ block_manager_v2.fault = "none"
    /\ v2_seqs[1] = <<>>
    /\ \E prompt \in TokenLists(1, MaxV2Prompt) :
         /\ v2_seqs' = [v2_seqs EXCEPT ![1] = prompt]
         /\ block_manager_v2' =
              table_stored(block_manager_v2, 1,
                allocate_blocks_for_token_ids(
                  [a |-> block_manager_v2.block_allocator.gpu,
                   blocks |-> <<>>, result |-> "ok"],
                  prompt))
    /\ v2_last' = [op |-> "allocate", seq |-> 1]
    /\ UNCHANGED <<alloc_vars, sched_vars, query_vars, prefix_vars,
                 evictor_vars, refcounter_vars, device_vars>>

\* BlockTable.num_full_slots: the tokens the table holds
num_full_slots(table) ==
    SumSeq([i \in 1..Len(table) |-> Len(table[i].token_ids)])

\* the engine appends the sampled tokens to the sequence
\* (seq.append_token_id) and the scheduler reserves their slots:
\* BlockSpaceManagerV2.append_slot(seq) with
\* unseen_token_ids = seq.get_token_ids()[num_full_slots:]
V2AppendSlot(seq) ==
    /\ block_manager_v2.fault = "none"
    /\ block_manager_v2.block_tables[seq] # <<>>
    /\ \E new_token_ids \in TokenLists(1, MaxV2Append) :
         /\ Len(v2_seqs[seq]) + Len(new_token_ids) <= MaxV2Len
         /\ v2_seqs' = [v2_seqs EXCEPT ![seq] = @ \o new_token_ids]
         /\ block_manager_v2' =
              table_stored(block_manager_v2, seq,
                block_table_append_token_ids(
                  [a |-> block_manager_v2.block_allocator.gpu,
                   blocks |-> block_manager_v2.block_tables[seq],
                   result |-> "ok"],
                  SubSeq(v2_seqs[seq] \o new_token_ids,
                         num_full_slots(block_manager_v2.block_tables[seq])
                           + 1,
                         Len(v2_seqs[seq]) + Len(new_token_ids))))
    \* _copy_on_writes is never cleared: the copies are capped
    /\ CowCount(block_manager_v2'.block_allocator.gpu) <= MaxCows
    /\ v2_last' = [op |-> "append_slot", seq |-> seq]
    /\ UNCHANGED <<alloc_vars, sched_vars, query_vars, prefix_vars,
                 evictor_vars, refcounter_vars, device_vars>>

\* BlockSpaceManagerV2.fork(parent_seq, child_seq) with the child a copy of
\* the parent: BlockTable.fork is allocator.fork(last block)
V2Fork(parent_seq, child_seq) ==
    /\ block_manager_v2.fault = "none"
    /\ block_manager_v2.block_tables[parent_seq] # <<>>
    /\ v2_seqs[child_seq] = <<>>
    /\ v2_seqs' = [v2_seqs EXCEPT ![child_seq] = v2_seqs[parent_seq]]
    /\ LET table == block_manager_v2.block_tables[parent_seq]
           r == fork_incr(block_manager_v2.block_allocator.gpu, table,
                          [i \in 1..Len(table) |-> i])
       IN  block_manager_v2' =
             table_stored(block_manager_v2, child_seq,
                          [a |-> r.a, blocks |-> table, result |-> r.result])
    /\ v2_last' = [op |-> "fork", seq |-> child_seq]
    /\ UNCHANGED <<alloc_vars, sched_vars, query_vars, prefix_vars,
                 evictor_vars, refcounter_vars, device_vars>>

\* BlockSpaceManagerV2.free(seq) of a finished sequence that has a table
V2Free(seq) ==
    /\ block_manager_v2.fault = "none"
    /\ block_manager_v2.block_tables[seq] # <<>>
    /\ block_manager_v2' =
         [block_manager_v2 EXCEPT
            !.block_allocator.gpu =
               block_table_free(@, block_manager_v2.block_tables[seq]),
            !.block_tables[seq] = <<>>]
    /\ v2_seqs' = [v2_seqs EXCEPT ![seq] = <<>>]
    /\ v2_last' = [op |-> "free", seq |-> seq]
    /\ UNCHANGED <<alloc_vars, sched_vars, query_vars, prefix_vars,
                 evictor_vars, refcounter_vars, device_vars>>

\* BlockSpaceManagerV2.__init__ with num_cpu_blocks = 0
InitBlockManagerV2 ==
    /\ block_manager_v2 =
         [block_allocator |-> CpuGpuBlockAllocator(V2GpuIds, {}),
          block_tables |-> [seq \in V2SeqIds |-> <<>>],
          fault |-> "none"]
    /\ v2_seqs = [seq \in V2SeqIds |-> <<>>]
    /\ v2_last = [op |-> "init", seq |-> 0]

NextBlockTable ==
    \/ V2Allocate
    \/ \E seq \in V2SeqIds : V2AppendSlot(seq)
    \/ \E parent_seq, child_seq \in V2SeqIds : V2Fork(parent_seq, child_seq)
    \/ \E seq \in V2SeqIds : V2Free(seq)

Init ==
    /\ InitAlloc /\ InitSched /\ InitQuery /\ InitPrefix
    /\ InitEvictor /\ InitRefCounter /\ InitDevice /\ InitBlockManagerV2

InitCanAllocate ==
    /\ InitAlloc /\ InitSched /\ InitQueries /\ InitPrefix
    /\ InitEvictor /\ InitRefCounter /\ InitDevice /\ InitBlockManagerV2

Next ==
    \/ AddSeqGroup
    \/ Schedule
    \/ AppendTokenId
    \/ \E s \in SeqIds : FinishSeq(s)
    \/ \E s \in SeqIds : ForkSeq(s)
    \/ FreeFinishedSeqGroups
    \/ \E g \in Groups : AbortSeqGroup(g)

Spec == Init /\ [][Next]_vars

SpecAlloc == Init /\ [][NextAlloc]_vars

SpecCanAllocate == InitCanAllocate /\ [][NextCanAllocate]_vars

SpecPrefix == Init /\ [][NextPrefix]_vars

SpecEvictor == Init /\ [][NextEvictor]_vars

SpecRefCounter == Init /\ [][NextRefCounter]_vars

SpecDevice == Init /\ [][NextDevice]_vars

SpecBlockTable == Init /\ [][NextBlockTable]_vars

(***************************************************************************)
(* Claims on the naive allocator (SpecAlloc)                               *)
(***************************************************************************)
\* the live logical blocks bound to slot i
Holders(i) ==
    {h \in Handles : blocks[h].exists /\ blocks[h].physical_block_index = i}

\* C2: a slot is in the free set if and only if its refcount is 0, and the
\* number of free slots plus the number of slots with refcount > 0 is the
\* number of slots of the device.
C2_FreeSetIffRefcountZero ==
    /\ \A i \in BlockIds :
         (i \in alloc.free_block_indices) <=> (alloc.refcounts[i] = 0)
    /\ get_num_free_blocks(alloc)
         + Cardinality({i \in BlockIds : alloc.refcounts[i] > 0}) = NumBlocks

\* C3: the refcount of every slot equals the number of live logical blocks
\* bound to that slot (so every block that has a slot has refcount >= 1 there).
C3_RefcountEqualsHolders ==
    \A i \in BlockIds : alloc.refcounts[i] = Cardinality(Holders(i))

\* C4: appending to a block whose slot i has refcount > 1 rebinds the block to
\* a slot i' that was free and differs from i, with refcount(i') = 1 and
\* refcount(i) one lower and still >= 1, every other holder staying bound to
\* i and (i -> i') recorded; with refcount(i) = 1 the block keeps slot i and
\* nothing is recorded.
C4_CopyOnWriteIsolation ==
    [][\A h \in Handles :
        (/\ alloc_last'.op = "append"
         /\ alloc_last'.h = h
         /\ blocks[h].physical_block_index # None)
        => LET i  == blocks[h].physical_block_index
               i2 == blocks'[h].physical_block_index
           IN  /\ alloc.refcounts[i] > 1 =>
                    /\ i2 # i
                    /\ i2 \in alloc.free_block_indices
                    /\ alloc'.refcounts[i2] = 1
                    /\ alloc'.refcounts[i] = alloc.refcounts[i] - 1
                    /\ alloc'.refcounts[i] >= 1
                    /\ \A k \in Handles \ {h} : blocks'[k] = blocks[k]
                    /\ alloc'.copy_on_writes[i]
                         = Append(alloc.copy_on_writes[i], i2)
               /\ alloc.refcounts[i] = 1 =>
                    /\ i2 = i
                    /\ alloc'.copy_on_writes = alloc.copy_on_writes
      ]_vars

(***************************************************************************)
(* Claims on the scheduler (Spec)                                          *)
(***************************************************************************)
\* C1: in every SchedulerOutputs that schedule() produces, blocks_to_swap_in
\* and blocks_to_swap_out are never both non-empty, and the assertion of the
\* constructor never fires.
C1_SwapInAndOutNeverCoOccur ==
    /\ fault # "SwapInAndOutAssertionError"
    /\ returned =>
         ~(out.blocks_to_swap_in # {} /\ out.blocks_to_swap_out # {})

\* a schedule() call has just swapped a group in (the group was swapped out by
\* an earlier call)
C1_Witness ==
    /\ returned
    /\ out.blocks_to_swap_in # {}
    /\ out.scheduled_seq_groups # <<>>

\* the queues a group is in
InQueues(S, g) ==
    g \in Range(S.waiting) \cup Range(S.running) \cup Range(S.swapped)

\* C6: in every state of a scheduler that has not failed, add_seq_group of a
\* new group followed by abort_seq_group of its id leaves the three queues,
\* every refcount and both free sets as they were; and abort_seq_group(id) of
\* any group leaves the group in no queue, its unfinished sequences
\* FINISHED_ABORTED and none of its sequences with a block table.
C6_AddThenAbortRestores ==
    fault = "none" =>
      /\ \A req \in Requests :
           LET g  == NumCreated + 1
               S2 == abort_seq_group(
                       add_seq_group(State, g, req[1], req[2]), g)
           IN  /\ Ok(S2)
               /\ S2.waiting = waiting
               /\ S2.running = running
               /\ S2.swapped = swapped
               /\ S2.gpu = gpu_allocator
               /\ S2.cpu = cpu_allocator
               /\ S2.block_tables = block_tables
      /\ \A g \in Groups :
           best_of[g] > 0 =>
             LET S2 == abort_seq_group(State, g)
             IN  /\ Ok(S2)
                 /\ ~InQueues(S2, g)
                 /\ \A k \in 1..MaxBestOf :
                      /\ (seqs[<<g, k>>].status \in {"WAITING", "RUNNING", "SWAPPED"})
                           => S2.seqs[<<g, k>>].status = "FINISHED_ABORTED"
                      /\ S2.block_tables[<<g, k>>] = <<>>

\* a group has been aborted while another group holds GPU slots in running
C6_Witness ==
    /\ fault = "none"
    /\ \E g \in Groups :
         /\ seqs[<<g, 1>>].status = "FINISHED_ABORTED"
         /\ ~InQueues(State, g)
    /\ running # <<>>
    /\ get_num_free_blocks(gpu_allocator) < num_gpu_blocks

\* a group the admission loop must ignore: its WAITING prompt is longer than
\* min(max_model_len, max_num_batched_tokens), or needs more blocks than the
\* GPU can ever give it
MustIgnore(g) ==
    LET len == seqs[get_seqs_status(State, g, "WAITING")[1]].len
    IN  \/ len > Min({max_model_len, max_num_batched_tokens})
        \/ num_gpu_blocks - num_logical_blocks(len) < watermark_blocks

\* C8: when schedule() runs prefill admission and reaches a waiting group
\* that must be ignored (every group in front of it left waiting), the group's
\* WAITING sequences become FINISHED_IGNORED, it leaves waiting, it is listed
\* in ignored_seq_groups of the output, it gets no slot and enters neither
\* running nor swapped, and the loop goes on to the next group (which is
\* ignored in turn when it must be); and no group with a FINISHED_IGNORED
\* sequence is ever in running or swapped.
C8_IgnoredAtAdmission ==
    [][/\ (Schedule /\ swapped = <<>>) =>
            \A i \in 1..Len(waiting) :
              (/\ \A j \in 1..(i - 1) : waiting[j] \notin Range(waiting')
               /\ MustIgnore(waiting[i]))
              => LET g == waiting[i]
                 IN  /\ fault' = "none"
                     /\ returned'
                     /\ out'.prompt_run
                     /\ g \in Range(out'.ignored_seq_groups)
                     /\ g \notin Range(out'.scheduled_seq_groups)
                     /\ g \notin Range(waiting') \cup Range(running')
                                                 \cup Range(swapped')
                     /\ \A k \in 1..MaxBestOf :
                          /\ seqs[<<g, k>>].status = "WAITING"
                               => seqs'[<<g, k>>].status = "FINISHED_IGNORED"
                          /\ block_tables'[<<g, k>>] = <<>>
       /\ \A s \in SeqIds :
            seqs'[s].status = "FINISHED_IGNORED"
              => s[1] \notin Range(running') \cup Range(swapped')
      ]_vars

\* a prompt run has ignored a group that can never be allocated and has gone
\* on to admit the group behind it
C8_Witness ==
    /\ returned
    /\ out.prompt_run
    /\ \E g \in Range(out.ignored_seq_groups), h \in Range(out.scheduled_seq_groups) :
         /\ g < h
         /\ seqs[<<g, 1>>].status = "FINISHED_IGNORED"
         /\ seqs[<<g, 1>>].len <= Min({max_model_len, max_num_batched_tokens})

\* C9: after every schedule() call the sum over the running groups of their
\* maximum number of running sequences is at most max_num_seqs.
C9_MaxNumSeqs ==
    returned =>
      SumSeq([i \in 1..Len(running) |->
                get_max_num_running_seqs(State, running[i])]) <= max_num_seqs

\* a schedule() call has left the group at the head of waiting behind only
\* because of the cap: it can be allocated now
C9_Witness ==
    /\ returned
    /\ running # <<>>
    /\ waiting # <<>>
    /\ can_allocate(State, Head(waiting)) = "OK"
    /\ SumSeq([i \in 1..Len(running) |->
                 get_max_num_running_seqs(State, running[i])])
         + get_max_num_running_seqs(State, Head(waiting)) > max_num_seqs

\* the prompt lengths of the groups a prompt run admitted, in admission order
AdmittedLens ==
    [i \in 1..Len(out.scheduled_seq_groups) |->
       seqs[get_seqs_status(State, out.scheduled_seq_groups[i], "RUNNING")[1]].len]

Verdict(total, num_free, required, wm) ==
    IF total - required < wm THEN "NEVER"
    ELSE IF num_free - required >= wm THEN "OK"
    ELSE "LATER"

\* C7: can_allocate returns NEVER exactly when total_gpu_blocks - required <
\* watermark_blocks, otherwise OK exactly when free_gpu_blocks - required >=
\* watermark_blocks, otherwise LATER, where required is the number of blocks
\* of the waiting prompt, capped by block_sliding_window when a sliding
\* window is configured; the NEVER verdict is the same for every free count,
\* so a prompt that gets OK or LATER in one state never gets NEVER in another.
C7_CanAllocateVerdict ==
    query.status # "none" =>
        LET wm == watermark_blocks_of(query.watermark, query.total)
            required ==
                IF query.block_sliding_window = None
                THEN query.nblocks
                ELSE Min({query.nblocks, query.block_sliding_window})
        IN  /\ query.status = Verdict(query.total, query.free, required, wm)
            /\ \A num_free \in 0..query.total :
                 (can_allocate_status(query.total, num_free, query.nblocks, wm,
                                      query.block_sliding_window) = "NEVER")
                    <=> (query.status = "NEVER")

\* a call where the sliding window caps the requirement of a prompt that
\* would not fit on the empty device
C7_Witness ==
    /\ query.status \in {"OK", "LATER"}
    /\ query.block_sliding_window # None
    /\ query.block_sliding_window < query.nblocks
    /\ query.total - query.nblocks
          < watermark_blocks_of(query.watermark, query.total)

\* C7 as stated: required is the number of blocks of the waiting prompt,
\* whatever the sliding window
C7_RequiredIsPromptBlocks ==
    query.status # "none" =>
        query.status =
            Verdict(query.total, query.free, query.nblocks,
                    watermark_blocks_of(query.watermark, query.total))

(***************************************************************************)
(* Claims on the prefix-caching allocator (SpecPrefix)                     *)
(***************************************************************************)
\* the live blocks whose content hash is H
LiveWithHash(H) ==
    {b \in PrefixHandles : pblocks[b].exists /\ pblocks[b].content_hash = H}

\* C5: allocating a full immutable block whose chain of token contents
\* equals that of a block that is still allocated succeeds, binds the new
\* block to the same slot and takes no slot from the FreeSet or the evictor,
\* also when neither has a slot left; a block whose content no live block
\* has takes exactly one slot, and fails only when there is none.  Along a
\* chain this gives: a prompt sharing k leading full blocks with a live
\* prompt lowers the free count by the number of its other blocks.
C5_PrefixReuse ==
    [][(/\ prefix_last'.op = "allocate_immutable"
        /\ prefix_last'.content_hash # NoHash)
       => IF LiveWithHash(prefix_last'.content_hash) # {}
          THEN /\ prefix_last'.result = "ok"
               /\ \A b \in LiveWithHash(prefix_last'.content_hash) :
                    pblocks'[prefix_last'.h].physical_block_index
                        = pblocks[b].physical_block_index
               /\ prefix'.free_block_indices = prefix.free_block_indices
               /\ prefix'.evictor = prefix.evictor
          ELSE IF prefix_num_free_blocks(prefix) = 0
               THEN /\ prefix_last'.result = "NoFreeBlocksError"
                    /\ prefix' = prefix
               ELSE /\ prefix_last'.result = "ok"
                    /\ prefix_num_free_blocks(prefix')
                          = prefix_num_free_blocks(prefix) - 1
      ]_vars

\* the second block of a chain was allocated with the content of a live
\* chain of two blocks while no slot was free: both second blocks are bound
\* to the same slot
C5_Witness ==
    /\ prefix_last.op = "allocate_immutable"
    /\ prefix_last.result = "ok"
    /\ Len(prefix_last.content_hash) = 2
    /\ prefix_num_free_blocks(prefix) = 0
    /\ Cardinality(LiveWithHash(prefix_last.content_hash)) = 2
    /\ LiveWithHash(SubSeq(prefix_last.content_hash, 1, 1)) # {}
    /\ \A b \in LiveWithHash(prefix_last.content_hash) :
         pblocks[b].physical_block_index
            = pblocks[prefix_last.h].physical_block_index

(***************************************************************************)
(* Claims on the LRU evictor (SpecEvictor)                                 *)
(***************************************************************************)
\* C11: evict() on a non-empty evictor removes and returns a candidate whose
\* last_accessed is the minimum over all candidates and whose
\* num_hashed_tokens is the maximum among the candidates with that minimum;
\* evict() on an empty evictor and remove() of an absent hash fail.
C11_EvictLeastRecentlyUsed ==
    [][/\ (evictor_last'.op = "evict" /\ evictor_vars' # evictor_vars) =>
            IF free_table = <<>>
            THEN /\ evictor_last'.result = "ValueError"
                 /\ free_table' = free_table
            ELSE \E k \in 1..Len(free_table) :
                   /\ evictor_last'.result = "ok"
                   /\ evictor_last'.content_hash = free_table[k].content_hash
                   /\ free_table' = pop(free_table, k)
                   /\ \A j \in 1..Len(free_table) :
                        /\ free_table[k].last_accessed
                             <= free_table[j].last_accessed
                        /\ free_table[j].last_accessed
                             = free_table[k].last_accessed
                           => free_table[j].num_hashed_tokens
                                <= free_table[k].num_hashed_tokens
       /\ (/\ evictor_last'.op = "remove"
           /\ evictor_vars' # evictor_vars
           /\ position(free_table, evictor_last'.content_hash) = 0)
          => /\ evictor_last'.result = "ValueError"
             /\ free_table' = free_table
      ]_vars

\* C12: with two evictable blocks that have equal last_accessed and
\* different num_hashed_tokens, evict() returns and removes the one with the
\* larger num_hashed_tokens; the one with the smaller stays in the evictor.
C12_TiebreakEvictsLongest ==
    [][(/\ evictor_last'.op = "evict"
        /\ evictor_vars' # evictor_vars
        /\ Len(free_table) = 2
        /\ free_table[1].last_accessed = free_table[2].last_accessed
        /\ free_table[1].num_hashed_tokens # free_table[2].num_hashed_tokens)
       => \E big \in 1..2 :
            /\ free_table[big].num_hashed_tokens
                 > free_table[3 - big].num_hashed_tokens
            /\ evictor_last'.content_hash = free_table[big].content_hash
            /\ free_table' = <<free_table[3 - big]>>
      ]_vars

\* an evict() has left, of two blocks with equal last_accessed, the one with
\* fewer hashed tokens
C12_Witness ==
    /\ evictor_last.op = "evict"
    /\ evictor_last.result = "ok"
    /\ Len(free_table) = 1
    /\ free_table[1].last_accessed = evictor_last.last_accessed
    /\ free_table[1].num_hashed_tokens < evictor_last.num_hashed_tokens

\* C12 as stated: of two evictable blocks with equal last_accessed the one
\* with the larger num_hashed_tokens stays in the evictor and the other is
\* reclaimed.
C12_TiebreakLongestSurvives ==
    [][(/\ evictor_last'.op = "evict"
        /\ evictor_vars' # evictor_vars
        /\ Len(free_table) = 2
        /\ free_table[1].last_accessed = free_table[2].last_accessed
        /\ free_table[1].num_hashed_tokens # free_table[2].num_hashed_tokens)
       => \E big \in 1..2 :
            /\ free_table[big].num_hashed_tokens
                 > free_table[3 - big].num_hashed_tokens
            /\ evictor_last'.content_hash = free_table[3 - big].content_hash
            /\ free_table' = <<free_table[big]>>
      ]_vars

(***************************************************************************)
(* Claims on the reference counter (SpecRefCounter)                        *)
(***************************************************************************)
\* C13: incr(i) on a key returns and stores the count plus one, decr(i) on a
\* key with a positive count returns and stores the count minus one (so from
\* 0, n incr return 1..n and n decr then return n-1..0); decr at count 0 and
\* incr or decr of an index that is no key are assertion faults that leave
\* every count unchanged; no count is ever negative and a call on i never
\* changes the count of another index.
C13_RefCounterCounts ==
    [][(refcounter_vars' # refcounter_vars) =>
        /\ DOMAIN refcounter'.refcounts = DOMAIN refcounter.refcounts
        /\ \A j \in DOMAIN refcounter.refcounts :
             /\ refcounter'.refcounts[j] >= 0
             /\ j # refcounter_last'.block_index =>
                  refcounter'.refcounts[j] = refcounter.refcounts[j]
        /\ IF /\ refcounter_last'.block_index \in DOMAIN refcounter.refcounts
              /\ (refcounter_last'.op = "decr" =>
                    refcounter.refcounts[refcounter_last'.block_index] > 0)
           THEN /\ refcounter_last'.raised = "none"
                /\ refcounter_last'.result =
                     refcounter.refcounts[refcounter_last'.block_index]
                       + (IF refcounter_last'.op = "incr" THEN 1 ELSE -1)
                /\ refcounter'.refcounts[refcounter_last'.block_index]
                     = refcounter_last'.result
           ELSE /\ refcounter_last'.raised = "AssertionError"
                /\ refcounter' = refcounter
      ]_vars

\* a decr on a slot whose count is back at 0 has failed while the other slot
\* has been incremented several times
C13_Witness ==
    /\ refcounter_last = [op |-> "decr", block_index |-> 0, result |-> None,
                          raised |-> "AssertionError"]
    /\ refcounter.refcounts[0] = 0
    /\ refcounter.refcounts[1] = MaxRefcount - 1

(***************************************************************************)
(* Further claims on the naive allocator (SpecAlloc)                       *)
(***************************************************************************)
\* C14: allocate_mutable and allocate_immutable fail with NoFreeBlocksError
\* exactly when the free set is empty and otherwise return a block bound to
\* a slot of the free set (so after N allocations on N slots the next fails,
\* and after a free that empties a slot the next allocation returns exactly
\* that slot and the one after fails again); free(b) sets the slot index of
\* b to absent and returns a slot nobody else references to the free set.
C14_AllocationFailsIffFreeSetEmpty ==
    [][/\ (/\ alloc_last'.op \in {"allocate_mutable", "allocate_immutable"}
           /\ alloc_vars' # alloc_vars)
          => /\ (alloc_last'.result = "NoFreeBlocksError")
                   <=> (alloc.free_block_indices = {})
             /\ alloc.free_block_indices # {} =>
                  /\ alloc_last'.result = "ok"
                  /\ blocks'[alloc_last'.h].physical_block_index
                        \in alloc.free_block_indices
                  /\ alloc'.free_block_indices = alloc.free_block_indices
                        \ {blocks'[alloc_last'.h].physical_block_index}
       /\ \A h \in Handles :
            (/\ alloc_last'.op = "free"
             /\ alloc_last'.h = h
             /\ alloc_vars' # alloc_vars
             /\ blocks[h].physical_block_index # None)
            => /\ blocks'[h].physical_block_index = None
               /\ alloc.refcounts[blocks[h].physical_block_index] = 1 =>
                    alloc'.free_block_indices = alloc.free_block_indices
                        \cup {blocks[h].physical_block_index}
      ]_vars

\* the slots of the blocks of a chain, first block first
chain_slots(bs, chain) ==
    [k \in 1..Len(chain) |-> bs[chain[k]].physical_block_index]

\* free(block) on every block of a chain bound to the given slots
RECURSIVE free_all(_, _)
free_all(a, slots) ==
    IF slots = <<>> THEN a
    ELSE IF get(a, Head(slots)) > 0
         THEN free_all(free_block_index(a, Head(slots)), Tail(slots))
         ELSE a

\* the block objects a step has created
Created == {x \in Handles : ~blocks[x].exists /\ blocks'[x].exists}

\* C15: fork(last_block) creates a parallel chain with the same length, the
\* same token ids and the same slot indices in the same order, increments
\* the refcount of each slot of the chain by exactly one and allocates no
\* new slot; freeing every block of the forked chain restores all refcounts
\* and the free set to their values before the fork.
C15_ForkSharesSlots ==
    [][\A h \in Handles :
        (/\ alloc_last'.op = "fork"
         /\ alloc_last'.h = h
         /\ alloc_vars' # alloc_vars)
        => LET chain == get_all_blocks_recursively(blocks, h)
           IN  /\ alloc_last'.result = "ok"
               /\ Cardinality(Created) = Len(chain)
               /\ \E last \in Created :
                    LET forked == get_all_blocks_recursively(blocks', last)
                    IN  /\ Len(forked) = Len(chain)
                        /\ Range(forked) = Created
                        /\ \A k \in 1..Len(chain) :
                             /\ blocks'[forked[k]].token_ids
                                  = blocks[chain[k]].token_ids
                             /\ blocks'[forked[k]].physical_block_index
                                  = blocks[chain[k]].physical_block_index
               /\ \A i \in BlockIds :
                    alloc'.refcounts[i] = alloc.refcounts[i]
                       + (IF i \in Range(chain_slots(blocks, chain))
                          THEN 1 ELSE 0)
               /\ alloc'.free_block_indices = alloc.free_block_indices
               /\ free_all(alloc', chain_slots(blocks, chain)) = alloc
      ]_vars


(***************************************************************************)
(* C16: the status of a sequence only moves along the edges of the status  *)
(* graph.                                                                  *)
(***************************************************************************)
\* the edges of the status graph between two statuses of one sequence; a
\* sequence that does not exist yet ("NONE") is created by add_seq_group or
\* by the fork of a running parent
StatusEdge(a, b) ==
    \/ a = "NONE"
    \/ <<a, b>> \in {<<"WAITING", "RUNNING">>, <<"RUNNING", "SWAPPED">>,
                     <<"RUNNING", "WAITING">>, <<"SWAPPED", "RUNNING">>,
                     <<"WAITING", "FINISHED_IGNORED">>}
    \/ /\ a \notin FinishedStatuses
       /\ b \in FinishedStatuses

\* C16: in every step of the scheduler and of the engine around it, a
\* sequence whose status changes moves along WAITING->RUNNING,
\* RUNNING->SWAPPED, RUNNING->WAITING, SWAPPED->RUNNING,
\* WAITING->FINISHED_IGNORED or from a non-terminal status to a FINISHED_*
\* status, and a sequence in a FINISHED_* status keeps that status
C16_StatusTransitions ==
    [][\A s \in SeqIds :
         seqs'[s].status # seqs[s].status
           => StatusEdge(seqs[s].status, seqs'[s].status)]_vars

\* a schedule() call has just swapped a group in (SWAPPED->RUNNING) while a
\* finished sequence of another group is around
C16_Witness ==
    /\ fault = "none"
    /\ returned
    /\ out.blocks_to_swap_in # {}
    /\ \E s \in SeqIds : is_finished(State, s)
    /\ \E s \in SeqIds : seqs[s].status = "RUNNING"


(***************************************************************************)
(* C17: swap_out and swap_in move the slots of a group between the tiers.  *)
(***************************************************************************)
\* the block numbers of a set of physical blocks
block_numbers(bs) == {b[2] : b \in bs}

\* every entry of the tables of the sequences seq_list in S is, in S2, the
\* block of the device "to" that the mapping gives for its number
Rebound(S, S2, seq_list, mapping, to) ==
    \A s \in Range(seq_list) :
       /\ Len(S2.block_tables[s]) = Len(S.block_tables[s])
       /\ \A i \in 1..Len(S.block_tables[s]) :
            /\ S2.block_tables[s][i][1] = to
            /\ <<S.block_tables[s][i][2], S2.block_tables[s][i][2]>>
                 \in mapping

\* r is the result of moving the blocks held (all of the tier "from") of the
\* sequences seq_list of S to the tier "to": one map entry per held block,
\* pairwise distinct targets, the free counts shifted by the number of held
\* blocks and the tables rebound
Moved(S, r, held, seq_list, from, to) ==
    /\ Ok(r.S)
    /\ \A b \in held : b[1] = from
    /\ {e[1] : e \in r.mapping} = block_numbers(held)
    /\ Cardinality(r.mapping) = Cardinality(held)
    /\ Cardinality({e[2] : e \in r.mapping}) = Cardinality(held)
    /\ get_num_free_blocks(AllocOf(r.S, from))
         = get_num_free_blocks(AllocOf(S, from)) + Cardinality(held)
    /\ get_num_free_blocks(AllocOf(r.S, to))
         = get_num_free_blocks(AllocOf(S, to)) - Cardinality(held)
    /\ Rebound(S, r.S, seq_list, r.mapping, to)

\* the free counts of both tiers are the same in S and S2
SameFreeCounts(S, S2) ==
    /\ get_num_free_blocks(S2.gpu) = get_num_free_blocks(S.gpu)
    /\ get_num_free_blocks(S2.cpu) = get_num_free_blocks(S.cpu)

\* swap_out of the running group g in S, then swap_in of it, as the scheduler
\* calls them (_swap_out marks the sequences SWAPPED)
SwapOutThenIn(S, g) == _swap_in(_swap_out(S, g, {}).S, g, {}).S

OthersKept(S, S2, request_ids) ==
    /\ S2.waiting = SelectSeq(S.waiting, LAMBDA g : g \notin request_ids)
    /\ S2.running = SelectSeq(S.running, LAMBDA g : g \notin request_ids)
    /\ S2.swapped = SelectSeq(S.swapped, LAMBDA g : g \notin request_ids)
    /\ \A s \in SeqIds :
         s[1] \notin request_ids =>
           /\ S2.seqs[s] = S.seqs[s]
           /\ S2.block_tables[s] = S.block_tables[s]
           /\ \A i \in 1..Len(S.block_tables[s]) :
                ref_count(S2, S.block_tables[s][i])
                  = ref_count(S, S.block_tables[s][i])

\* what C18 says of abort_seq_group(request_ids) in the state S
AbortFrame(S, request_ids) ==
    /\ Ok(abort_seq_groups(S, request_ids))
    /\ (\A g \in request_ids : ~InQueues(S, g))
         => abort_seq_groups(S, request_ids) = S
    /\ abort_seq_groups(abort_seq_groups(S, request_ids), request_ids)
         = abort_seq_groups(S, request_ids)
    /\ OthersKept(S, abort_seq_groups(S, request_ids), request_ids)

\* C18: in every state of a scheduler that has not failed and for every set
\* of request ids, abort_seq_group with ids that are in no queue changes no
\* queue, status, block table, refcount or free set; calling it a second time
\* with the same ids changes nothing more; and the groups whose id is not
\* among the ids keep their queue, their order in it, their statuses and
\* their slots.
C18_AbortIdempotentFrame ==
    fault = "none" => \A request_ids \in SUBSET Groups :
                        AbortFrame(State, request_ids)

\* a group was aborted before (its id is now unknown to the queues) while
\* another group is swapped out and holds slots
C18_Witness ==
    /\ fault = "none"
    /\ \E g \in Groups :
         /\ seqs[<<g, 1>>].status = "FINISHED_ABORTED"
         /\ ~InQueues(State, g)
    /\ swapped # <<>>
    /\ \E s \in SeqIds : block_tables[s] # <<>>


(***************************************************************************)
(* C19, C20: the slot partition and the PrefixCacheIndex of the            *)
(* prefix-caching allocator (SpecPrefix)                                   *)
(***************************************************************************)
\* the number of the three classes FreeSet, referenced, Evictor slot s is in
NumClasses(a, s) ==
    (IF s \in a.free_block_indices THEN 1 ELSE 0)
      + (IF a.refcounts[s] > 0 THEN 1 ELSE 0)
      + (IF s \in a.evictor THEN 1 ELSE 0)

\* C19: in every state the prefix-caching allocator reaches by
\* allocate_immutable, allocate_mutable, promotion of a block that became
\* full, fork, copy-on-write and free, every slot is in exactly one of the
\* FreeSet, the referenced slots (refcount > 0) and the Evictor.
C19_SlotPartition ==
    \A s \in PrefixBlockIds : NumClasses(prefix, s) = 1

\* an append has just copied a shared block on write while one slot is
\* referenced twice and another one is parked in the Evictor
C19_Witness ==
    /\ prefix_last.op = "append_slot"
    /\ prefix_last.result = "copied"
    /\ prefix.evictor # {}
    /\ \E s \in PrefixBlockIds : prefix.refcounts[s] >= 2

\* C20: in every state the prefix-caching allocator reaches, also by
\* promoting a block whose hash is already indexed at a live or at a parked
\* slot and by eviction: every slot the PrefixCacheIndex references is live
\* (refcount > 0, in neither the FreeSet nor the Evictor) or parked in the
\* Evictor with refcount 0; every slot of the Evictor has refcount 0 and a
\* hash indexed to it; no two hashes are indexed to one slot; and every live
\* block with a hash is bound to the slot the index gives for its hash.
C20_PrefixCacheIndex ==
    /\ \A H \in DOMAIN prefix.cached_blocks :
         \/ /\ prefix.refcounts[prefix.cached_blocks[H]] > 0
            /\ prefix.cached_blocks[H] \notin prefix.evictor
            /\ prefix.cached_blocks[H] \notin prefix.free_block_indices
         \/ /\ prefix.refcounts[prefix.cached_blocks[H]] = 0
            /\ prefix.cached_blocks[H] \in prefix.evictor
    /\ \A s \in prefix.evictor :
         /\ prefix.refcounts[s] = 0
         /\ \E H \in DOMAIN prefix.cached_blocks : prefix.cached_blocks[H] = s
    /\ \A H1, H2 \in DOMAIN prefix.cached_blocks :
         prefix.cached_blocks[H1] = prefix.cached_blocks[H2] => H1 = H2
    /\ \A h \in PrefixHandles :
         (pblocks[h].exists /\ pblocks[h].content_hash # NoHash)
           => cached_block_index(prefix, pblocks[h].content_hash)
                = pblocks[h].physical_block_index

\* a block has just been promoted to a hash that was parked in the Evictor:
\* it holds the revived slot alone, and its old slot is in the FreeSet
C20_Witness ==
    /\ prefix_last.op = "append_slot"
    /\ prefix_last.result = "revived"
    /\ prefix.refcounts[pblocks[prefix_last.h].physical_block_index] = 1
    /\ prefix.free_block_indices # {}


(***************************************************************************)
(* C21: BlockSpaceManager.free(seq) is idempotent.                         *)
(***************************************************************************)
\* the physical blocks of both devices
AllPhysicalBlocks ==
    {<<"gpu", i>> : i \in GpuIds} \cup {<<"cpu", i>> : i \in CpuIds}

\* the number of entries of a block table that are the block b
Occurrences(table, b) ==
    Cardinality({i \in 1..Len(table) : table[i] = b})

\* S2 = free(seq s) applied to S: every reference of the table of s is given
\* back, a block is in its free set exactly when nobody references it any
\* more, s has no table and the other tables are untouched
Freed(S, S2, s) ==
    /\ Ok(S2)
    /\ S2.block_tables[s] = <<>>
    /\ \A b \in AllPhysicalBlocks :
         /\ ref_count(S2, b)
              = ref_count(S, b) - Occurrences(S.block_tables[s], b)
         /\ b[2] \in AllocOf(S2, b[1]).free_block_indices
              <=> (\/ b[2] \in AllocOf(S, b[1]).free_block_indices
                   \/ /\ b \in Range(S.block_tables[s])
                      /\ ref_count(S2, b) = 0)
    /\ \A t \in SeqIds \ {s} : S2.block_tables[t] = S.block_tables[t]

\* C21: in every state of a block manager that has not failed and for every
\* sequence, free(seq) gives back every slot reference of the sequence's
\* block table and removes the table; a second free(seq), and free of a
\* sequence without a table, change nothing at all.
C21_FreeIdempotent ==
    fault = "none" =>
      \A s \in SeqIds :
         /\ Freed(State, free(State, s), s)
         /\ free(free(State, s), s) = free(State, s)
         /\ block_tables[s] = <<>> => free(State, s) = State

\* a finished sequence has been freed while a sibling still holds the blocks
\* they shared
C21_Witness ==
    /\ fault = "none"
    /\ \E s, t \in SeqIds :
         /\ s # t
         /\ is_finished(State, s)
         /\ seqs[s].len > 0
         /\ block_tables[s] = <<>>
         /\ block_tables[t] # <<>>
    /\ \E b \in AllPhysicalBlocks : ref_count(State, b) >= 2


(***************************************************************************)
(* C22: the two devices of the CpuGpuBlockAllocator do not interfere       *)
(* (SpecDevice)                                                            *)
(***************************************************************************)
OtherDevice(device) == IF device = "gpu" THEN "cpu" ELSE "gpu"

\* the blocks the client holds that it requested on the device
HeldOn(B, device) ==
    {h \in DeviceHandles : B[h].exists /\ B[h].device = device}

\* the free count of every device is its size minus the blocks held on it,
\* and no slot index is held on both devices
DeviceCounts(d, B) ==
    /\ get_num_free_blocks(d.gpu)
         = NumDeviceGpuBlocks - Cardinality(HeldOn(B, "gpu"))
    /\ get_num_free_blocks(d.cpu)
         = NumDeviceCpuBlocks - Cardinality(HeldOn(B, "cpu"))
    /\ \A g \in HeldOn(B, "gpu"), c \in HeldOn(B, "cpu") :
         B[g].physical_block_index # B[c].physical_block_index

\* C22: every allocate_mutable, allocate_immutable and free call of the
\* two-device allocator leaves the free set of the other device as it was;
\* an allocation takes a slot of the free set of the device it names and a
\* free returns the slot to the free set of the device the block was
\* allocated on; a slot index is never held on both devices; and the free
\* count of a device is its size minus the blocks held on it, so that after
\* allocating all slots of both devices and freeing them all the counts are
\* again num_gpu_blocks and num_cpu_blocks.
C22_DevicesIndependent ==
    [][device_vars' # device_vars =>
         /\ device_allocators'[OtherDevice(device_last'.device)]
              = device_allocators[OtherDevice(device_last'.device)]
         /\ DeviceCounts(device_allocators', device_blocks')
         /\ (device_last'.op # "free" /\ device_last'.result = "ok") =>
              /\ device_blocks'[device_last'.h].physical_block_index
                   \in device_allocators[device_last'.device].free_block_indices
              /\ device_blocks'[device_last'.h].physical_block_index
                   \notin device_allocators'[device_last'.device]
                            .free_block_indices
         /\ device_last'.op = "free" =>
              /\ device_blocks[device_last'.h].physical_block_index
                   \in device_allocators'[device_last'.device].free_block_indices
              /\ device_blocks[device_last'.h].device = device_last'.device
      ]_vars

\* all CPU blocks have just been freed while every GPU slot is still held
C22_Witness ==
    /\ device_last.op = "free"
    /\ device_last.device = "cpu"
    /\ get_num_free_blocks(device_allocators.gpu) = 0
    /\ get_num_free_blocks(device_allocators.cpu) = NumDeviceCpuBlocks


(***************************************************************************)
(* C23: a swap-out without CPU space is a fatal error that moves nothing.  *)
(***************************************************************************)
\* the group g has the same sequences and block tables in S and S2, and the
\* blocks of its tables are GPU blocks with the same refcounts
GroupUntouched(S, S2, g) ==
    \A k \in 1..MaxBestOf :
       /\ S2.seqs[<<g, k>>] = S.seqs[<<g, k>>]
       /\ S2.block_tables[<<g, k>>] = S.block_tables[<<g, k>>]
       /\ \A b \in Range(S.block_tables[<<g, k>>]) :
            /\ b[1] = "gpu"
            /\ ref_count(S2, b) = ref_count(S, b)

\* a group that is preempted by swapping and cannot be swapped out
MustSwapButCannot(S, g) ==
    /\ get_max_num_running_seqs(S, g) > 1
    /\ Cardinality(get_physical_blocks(S, g)) > get_num_free_blocks(S.cpu)

\* C23: (a) after every step, preempting a running group that is preempted
\* by swapping while the CPU tier has fewer free slots than the group holds
\* GPU slots raises RuntimeError and changes nothing else; (b) a schedule()
\* call that ends with RuntimeError leaves behind a group it had taken out of
\* running that must be swapped and cannot be, with its sequences, their
\* statuses (RUNNING unless finished), its block tables and the refcounts of
\* its GPU slots as they were before the call.
C23_SwapOutFailureIsFatal ==
    [][/\ fault' = "none" =>
            \A g \in Range(running') :
               MustSwapButCannot(State', g) =>
                 _preempt(State', g, {}).S = Raise(State', "RuntimeError")
       /\ (fault = "none" /\ fault' = "RuntimeError") =>
            \E g \in Range(running) :
               /\ ~InQueues(State', g)
               /\ MustSwapButCannot(State', g)
               /\ ~can_swap_out(State', g)
               /\ GroupUntouched(State, State', g)
               /\ \A k \in 1..MaxBestOf :
                    seqs'[<<g, k>>].status \in {"NONE", "RUNNING"}
                                                 \cup FinishedStatuses
               /\ num_seqs_status(State', g, "RUNNING") >= 1
      ]_vars

\* schedule() has failed for lack of CPU swap space
C23_Witness ==
    /\ fault = "RuntimeError"
    /\ \E g \in Groups :
         /\ ~InQueues(State, g)
         /\ MustSwapButCannot(State, g)
         /\ num_seqs_status(State, g, "RUNNING") >= 1


(***************************************************************************)
(* C24: what admission leaves behind in waiting.                           *)
(***************************************************************************)
\* s is the tail of t
IsSuffix(s, t) ==
    /\ Len(s) <= Len(t)
    /\ s = SubSeq(t, Len(t) - Len(s) + 1, Len(t))

\* the groups of the queue w that are still in the queue w2, in the order
\* of w2
KeptWaiting(w, w2) == SelectSeq(w2, LAMBDA g : g \in Range(w))

\* the group g waits in S as it did in S0: same sequences, exactly one of
\* them WAITING, no block table, in no other queue
StillWaiting(S0, S, g) ==
    /\ \A k \in 1..MaxBestOf :
         /\ S.seqs[<<g, k>>] = S0.seqs[<<g, k>>]
         /\ S.block_tables[<<g, k>>] = <<>>
    /\ num_seqs_status(S, g, "WAITING") = 1
    /\ g \notin Range(S.running) \cup Range(S.swapped)

\* the group g left waiting because it was admitted or because it was ignored
AdmittedOrIgnored(S, outputs, g) ==
    \/ /\ g \in Range(S.running)
       /\ g \in Range(outputs.scheduled_seq_groups)
       /\ g \notin Range(outputs.ignored_seq_groups)
       /\ num_seqs_status(S, g, "RUNNING") = 1
    \/ /\ g \in Range(outputs.ignored_seq_groups)
       /\ g \notin Range(outputs.scheduled_seq_groups)
       /\ ~InQueues(S, g)
       /\ num_seqs_status(S, g, "FINISHED_IGNORED") = 1

\* the prompt length of the waiting group g
WaitingLen(S, g) == S.seqs[get_seqs_status(S, g, "WAITING")[1]].len

Recomputed(S, S2, g, s) ==
    /\ Ok(S2)
    /\ S2.seqs = [S.seqs EXCEPT ![s].status = "WAITING"]
    /\ Freed(S, S2, s)
    /\ \A k \in 1..MaxBestOf : S2.block_tables[<<g, k>>] = <<>>
    /\ S2.waiting = <<g>> \o S.waiting
    /\ S2.running = S.running
    /\ S2.swapped = S.swapped

\* C25: (a) after every step, _preempt of a running group whose maximum
\* number of running sequences is 1 turns its single RUNNING sequence into
\* WAITING, frees every slot the group held, puts the group at the front of
\* waiting and adds nothing to blocks_to_swap_out; (b) a group that a
\* schedule() call moves from running to waiting had a maximum of 1 running
\* sequences, and afterwards its sequence is WAITING with the same tokens and
\* the group has no slot; (c) every group a prompt run schedules comes with
\* the full length of its WAITING sequence (prompt plus tokens generated
\* before a preemption): num_batched_tokens is at least that length and the
\* sequence has a slot for each of its tokens.
C25_RecomputePreemption ==
    [][/\ fault' = "none" =>
            \A g \in Range(running') :
               get_max_num_running_seqs(State', g) = 1 =>
                 /\ num_seqs_status(State', g, "RUNNING") = 1
                 /\ _preempt(State', g, {}).blocks_to_swap = {}
                 /\ Recomputed(State', _preempt(State', g, {}).S, g,
                               get_seqs_status(State', g, "RUNNING")[1])
       /\ (returned' /\ fault' = "none") =>
            /\ \A g \in Range(running) \cap Range(waiting') :
                 /\ get_max_num_running_seqs(State, g) = 1
                 /\ num_seqs_status(State, g, "RUNNING") = 1
                 /\ seqs' = [seqs' EXCEPT
                       ![get_seqs_status(State, g, "RUNNING")[1]] =
                          [status |-> "WAITING",
                           len |-> seqs[get_seqs_status(State, g,
                                                        "RUNNING")[1]].len]]
                 /\ \A k \in 1..MaxBestOf : block_tables'[<<g, k>>] = <<>>
                 /\ g \notin Range(running') \cup Range(swapped')
            /\ out'.prompt_run =>
                 \A g \in Range(out'.scheduled_seq_groups) :
                    /\ g \in Range(waiting)
                    /\ num_seqs_status(State', g, "RUNNING") = 1
                    /\ seqs'[get_seqs_status(State', g, "RUNNING")[1]].len
                         = WaitingLen(State, g)
                    /\ out'.num_batched_tokens >= WaitingLen(State, g)
                    /\ Len(block_tables'[get_seqs_status(State', g,
                                                         "RUNNING")[1]])
                         = num_logical_blocks(WaitingLen(State, g))
      ]_vars

\* a prompt run has re-admitted a group that was preempted by recomputation
\* after it had generated tokens: the requests with best_of above 1 have a
\* prompt of one token, and only a preempted group with forked sequences is
\* admitted while it has more than one sequence
C25_Witness ==
    /\ returned
    /\ out.prompt_run
    /\ \E g \in Range(out.scheduled_seq_groups) :
         /\ best_of[g] > 1
         /\ num_seqs(State, g) > 1
         /\ num_seqs_status(State, g, "RUNNING") = 1
         /\ seqs[get_seqs_status(State, g, "RUNNING")[1]].len > 1
         /\ out.num_batched_tokens
              >= seqs[get_seqs_status(State, g, "RUNNING")[1]].len


(***************************************************************************)
(* C26: preemption by swapping.                                            *)
(***************************************************************************)
\* the sequences of S with the RUNNING sequences of the group g SWAPPED
RunningSwapped(S, g) ==
    [s \in SeqIds |->
       IF s[1] = g /\ S.seqs[s].status = "RUNNING"
       THEN [S.seqs[s] EXCEPT !.status = "SWAPPED"]
       ELSE S.seqs[s]]

\* a map entry that no swap produces, to see the merge into the map of the
\* step
OtherEntry == <<num_gpu_blocks, num_cpu_blocks>>

\* r is the result of the preemption by swapping of the group g of S with
\* the map `before` of the step: the RUNNING sequences are SWAPPED, every
\* table entry is the CPU slot the map gives for the GPU slot it was, every
\* GPU slot the group held is free again, each CPU slot is referenced as
\* often as the tables name it, the new pairs are added to the map and g is
\* the last group of swapped
SwappedOut(S, r, g, before) ==
    /\ Ok(r.S)
    /\ r.S.seqs = RunningSwapped(S, g)
    /\ Rebound(S, r.S, get_seqs_status(S, g, "RUNNING"),
               r.blocks_to_swap \ before, "cpu")
    /\ before \subseteq r.blocks_to_swap
    /\ {e[1] : e \in r.blocks_to_swap \ before}
         = block_numbers(get_physical_blocks(S, g))
    /\ \A b \in get_physical_blocks(S, g) :
         /\ b[1] = "gpu"
         /\ ref_count(r.S, b) = 0
         /\ b[2] \in r.S.gpu.free_block_indices
    /\ \A b \in get_physical_blocks(r.S, g) :
         /\ b[1] = "cpu"
         /\ b[2] \notin r.S.cpu.free_block_indices
         /\ ref_count(r.S, b)
              = SumSeq([k \in 1..MaxBestOf |->
                          Occurrences(r.S.block_tables[<<g, k>>], b)])
    /\ r.S.swapped = Append(S.swapped, g)
    /\ r.S.waiting = S.waiting
    /\ r.S.running = S.running

\* C26: (a) after every step, _preempt of a running group that can have
\* more than one running sequence and that the CPU tier has room for swaps
\* it out: all its RUNNING sequences become SWAPPED, every GPU slot it held
\* is released and replaced by a CPU slot, the GPU->CPU pairs are merged into
\* blocks_to_swap_out and the group is appended to swapped; (b) a group that
\* a schedule() call moves from running to swapped could have more than one
\* running sequence, its RUNNING sequences are SWAPPED afterwards, its tables
\* hold CPU slots and the pairs are in blocks_to_swap_out of the output; a
\* group with more than one RUNNING sequence is never moved to waiting.
C26_SwapPreemption ==
    [][/\ fault' = "none" =>
            \A g \in Range(running') :
               (get_max_num_running_seqs(State', g) > 1
                  /\ can_swap_out(State', g)) =>
                 SwappedOut(State', _preempt(State', g, {OtherEntry}), g,
                            {OtherEntry})
       /\ (returned' /\ fault' = "none") =>
            /\ \A g \in Range(running) \cap Range(swapped') :
                 /\ get_max_num_running_seqs(State, g) # 1
                 /\ seqs' = RunningSwapped([State EXCEPT !.seqs = seqs'], g)
                 /\ \A s \in Range(get_seqs_status(State, g, "RUNNING")) :
                      seqs'[s].status = "SWAPPED"
                 /\ Rebound(State, State',
                            get_seqs_status(State, g, "RUNNING"),
                            out'.blocks_to_swap_out, "cpu")
                 /\ ~out'.prompt_run
                 /\ g \notin Range(running') \cup Range(waiting')
            /\ \A g \in Range(running) :
                 num_seqs_status(State, g, "RUNNING") > 1 =>
                   g \notin Range(waiting')
      ]_vars

\* a decode step has swapped out a group with two RUNNING sequences that
\* share a slot
C26_Witness ==
    /\ returned
    /\ ~out.prompt_run
    /\ out.blocks_to_swap_out # {}
    /\ \E g \in Range(swapped) :
         /\ num_seqs_status(State, g, "SWAPPED") > 1
         /\ \A b \in get_physical_blocks(State, g) :
              /\ b[1] = "cpu"
              /\ \E e \in out.blocks_to_swap_out : e[2] = b[2]
         /\ \E b \in get_physical_blocks(State, g) : ref_count(State, b) > 1


(***************************************************************************)
(* C27: who is preempted in a decode step.                                 *)
(***************************************************************************)
\* the groups of the queue q that the queue q2 no longer holds
LeftQueue(q, q2) == Range(q) \ Range(q2)

\* s is the head of t
IsPrefix(s, t) ==
    /\ Len(s) <= Len(t)
    /\ s = SubSeq(t, 1, Len(s))

FirstN(q, n) == SubSeq(q, 1, n)

\* the swap-in loop cannot take the group g in the state S
SwapInBlocked(S, g) ==
    \/ ~can_swap_in(S, g)
    \/ exceeds_max_num_seqs(num_curr_seqs_of(S),
                            get_max_num_running_seqs(S, g))

\* C28: in every schedule() call that returns, (a) when swapped was not
\* empty at the start the output is a decode run without ignored groups, no
\* waiting group starts running, and waiting is the old queue with the
\* groups preempted by recomputation in front of it; (b) a group is swapped
\* in only in a call that preempts nobody, and a call that preempts keeps
\* every swapped group swapped; (c) in a decode step without preemption the
\* groups swapped in are a head of swapped in arrival order, appended to
\* running in that order, the rest stays in swapped in that order, and the
\* first group that stays fails can_swap_in or would exceed max_num_seqs.
C28_SwappedBeforeWaiting ==
    [][(returned' /\ fault' = "none") =>
         /\ swapped # <<>> =>
              /\ ~out'.prompt_run
              /\ out'.ignored_seq_groups = <<>>
              /\ IsSuffix(waiting, waiting')
              /\ Range(waiting) \cap Range(running') = {}
              /\ \A g \in Range(waiting') \ Range(waiting) :
                   /\ g \in Range(running)
                   /\ get_max_num_running_seqs(State, g) = 1
         /\ Range(swapped) \cap Range(running') # {} =>
              /\ LeftQueue(running, running') = {}
              /\ out'.blocks_to_swap_out = {}
         /\ LeftQueue(running, running') # {} =>
              /\ Range(swapped) \subseteq Range(swapped')
              /\ out'.blocks_to_swap_in = {}
         /\ (~out'.prompt_run /\ LeftQueue(running, running') = {}) =>
              /\ IsSuffix(swapped', sort_by_priority(swapped))
              /\ IsSuffix(FirstN(sort_by_priority(swapped),
                                 Len(swapped) - Len(swapped')),
                          running')
              /\ swapped' # <<>> => SwapInBlocked(State', Head(swapped'))
      ]_vars

\* a decode step that began with a swapped group has swapped nothing out and
\* nothing in, because the group at the head of swapped cannot be swapped in,
\* and has left the waiting group waiting although it could be allocated
C28_Witness ==
    /\ returned
    /\ ~out.prompt_run
    /\ swapped # <<>>
    /\ out.blocks_to_swap_out = {}
    /\ out.blocks_to_swap_in = {}
    /\ waiting # <<>>
    /\ SwapInBlocked(State, Head(swapped))
    /\ can_allocate(State, Head(waiting)) = "OK"


(***************************************************************************)
(* C29: the two kinds of schedule() call.                                  *)
(***************************************************************************)
\* the sequences and the slots of the group g are in S2 what they were in S
GroupAsBefore(S, S2, g) ==
    \A k \in 1..MaxBestOf :
       /\ S2.seqs[<<g, k>>] = S.seqs[<<g, k>>]
       /\ S2.block_tables[<<g, k>>] = S.block_tables[<<g, k>>]
       /\ \A b \in Range(S.block_tables[<<g, k>>]) :
            ref_count(S2, b) = ref_count(S, b)

\* the RUNNING sequences of the groups of the queue q
RunningSeqsIn(S, q) ==
    {s \in SeqIds : s[1] \in Range(q) /\ S.seqs[s].status = "RUNNING"}

RECURSIVE TableTokenIds(_)
TableTokenIds(table) ==
    IF table = <<>> THEN <<>>
    ELSE table[1].token_ids \o TableTokenIds(Tail(table))

\* ceil(n / BlockSize)
NumRequiredBlocks(n) == (n + BlockSize - 1) \div BlockSize

\* the table holds exactly the tokens token_ids: ceil(n / block_size)
\* blocks, each with a slot, all full except possibly the last
TableHolds(table, token_ids) ==
    /\ Len(table) = NumRequiredBlocks(Len(token_ids))
    /\ \A i \in 1..(Len(table) - 1) : Len(table[i].token_ids) = BlockSize
    /\ \A i \in 1..Len(table) :
         /\ table[i].physical_block_index \in V2GpuIds
         /\ Len(table[i].token_ids) \in 1..BlockSize
    /\ TableTokenIds(table) = token_ids

\* no slot of the table is shared with another table
Unshared(M, table) ==
    \A i \in 1..Len(table) :
       get(M.block_allocator.gpu, table[i].physical_block_index) = 1

PrefixTokenLists ==
    UNION {[1..n -> 0..MaxPrefixToken] : n \in 0..PrefixBlockSize}

\* the token ids a chain is built from
ChainTokenIds ==
    UNION {[1..n -> 0..MaxPrefixToken] :
              n \in 0..(MaxChainLen * PrefixBlockSize)}

\* the tokens block number k (from 1) of a chain built from token_ids gets
ChainBlockTokens(token_ids, k) ==
    SubSeq(token_ids, (k - 1) * PrefixBlockSize + 1,
           Min({k * PrefixBlockSize, Len(token_ids)}))

\* content hash of block number k of a chain built from token_ids, each
\* block created behind its predecessor
RECURSIVE ChainHash(_, _)
ChainHash(token_ids, k) ==
    IF k = 1
    THEN content_hash(pblocks, None, ChainBlockTokens(token_ids, 1))
    ELSE content_hash([h \in {k - 1} |->
                          [content_hash |-> ChainHash(token_ids, k - 1)]],
                      k - 1, ChainBlockTokens(token_ids, k))

\* the token ids of the chain up to a block with content hash H
ChainOf(H) ==
    [i \in 1..(Len(H) * PrefixBlockSize) |->
        H[((i - 1) \div PrefixBlockSize) + 1][((i - 1) % PrefixBlockSize) + 1]]

\* position k of the chains built from t1 and from t2: hashed exactly when
\* the tokens fill the block, equal hashes when the chains agree up to k,
\* and different hashes when block k differs
SameChains(t1, t2, k) ==
    /\ (ChainHash(t1, k) # NoHash) <=> k * PrefixBlockSize <= Len(t1)
    /\ (\A j \in 1..k : ChainBlockTokens(t1, j) = ChainBlockTokens(t2, j))
          => ChainHash(t1, k) = ChainHash(t2, k)
    /\ (ChainHash(t1, k) # NoHash /\ ChainHash(t1, k) = ChainHash(t2, k))
          => ChainBlockTokens(t1, k) = ChainBlockTokens(t2, k)

\* the hash of the predecessor as hash_block_tokens gets it
PrevBlockHash(prev_block) ==
    IF prev_block = None THEN NoHash ELSE pblocks[prev_block].content_hash

PrefixAvailable(a) == a.free_block_indices \cup a.evictor

\* every slot of allocator a is referenced
AllSlotsReferenced(a) == \A i \in PrefixBlockIds : a.refcounts[i] > 0

\* the hashes of the PrefixCacheIndex of a that point at slot s
HashesAt(a, s) == {H \in DOMAIN a.cached_blocks : a.cached_blocks[H] = s}

\* allocate_mutable from allocator a to a2 made the block object h
MutableAllocated(a, a2, h) ==
    /\ (prefix_last'.result = "NoFreeBlocksError")
          <=> (a.free_block_indices = {} /\ AllSlotsReferenced(a))
    /\ prefix_last'.result = "NoFreeBlocksError" =>
          a2 = a /\ pblocks' = pblocks
    /\ prefix_last'.result # "NoFreeBlocksError" =>
          /\ prefix_last'.result = "ok"
          /\ pblocks'[h].physical_block_index \in PrefixAvailable(a)
          /\ pblocks'[h].content_hash = NoHash
          /\ a2.refcounts[pblocks'[h].physical_block_index] = 1
          /\ HashesAt(a2, pblocks'[h].physical_block_index) = {}
          /\ PrefixAvailable(a2) =
                PrefixAvailable(a) \ {pblocks'[h].physical_block_index}
          /\ \A i \in PrefixBlockIds \ {pblocks'[h].physical_block_index} :
                /\ a2.refcounts[i] = a.refcounts[i]
                /\ HashesAt(a2, i) = HashesAt(a, i)
    /\ Cardinality(PrefixAvailable(a)) = 1 =>
          /\ PrefixAvailable(a) = {pblocks'[h].physical_block_index}
          /\ a2.free_block_indices = {} /\ AllSlotsReferenced(a2)

\* free of the block object h bound to slot s, from allocator a to a2
BlockFreed(a, a2, h, s) ==
    /\ pblocks'[h].physical_block_index = None
    /\ a2.refcounts = [a.refcounts EXCEPT ![s] = @ - 1]
    /\ (a.free_block_indices = {} /\ AllSlotsReferenced(a)
          /\ a.refcounts[s] = 1) =>
          /\ PrefixAvailable(a2) = {s}
          /\ (s \in a2.evictor) <=> (prefix_last'.content_hash # NoHash)
          /\ \A i \in PrefixBlockIds \ {s} : a2.refcounts[i] > 0
    /\ a.refcounts[s] > 1 => PrefixAvailable(a2) = PrefixAvailable(a)

\* C32: in the prefix-caching allocator no slot is available (FreeSet and
\* evictor empty) exactly when every slot is referenced; allocate_mutable
\* fails with NoFreeBlocks exactly then and changes nothing; a free that
\* takes a refcount to 0 in such a state unbinds the block and leaves its
\* slot as the only available one (in the evictor if the block was hashed,
\* in the FreeSet otherwise); the next allocate_mutable succeeds on exactly
\* that slot, no hash of the PrefixCacheIndex points at it any more, every
\* other slot keeps its refcount and hashes, and no slot is available
\* afterwards, so a further allocate_mutable fails again
C32_FreePreventsOom ==
    [][/\ (PrefixAvailable(prefix) = {}) <=> AllSlotsReferenced(prefix)
       /\ prefix_last'.op = "allocate_mutable" =>
             MutableAllocated(prefix, prefix', prefix_last'.h)
       /\ prefix_last'.op = "free" =>
             BlockFreed(prefix, prefix', prefix_last'.h,
                        pblocks[prefix_last'.h].physical_block_index)]_vars

\* a hashed block was freed while every slot was referenced: its slot is the
\* only available one, parked in the evictor with its hash still cached
C32_Witness ==
    /\ prefix_last.op = "free"
    /\ prefix_last.content_hash # NoHash
    /\ prefix.free_block_indices = {}
    /\ Cardinality(prefix.evictor) = 1
    /\ \A s \in prefix.evictor : HashesAt(prefix, s) # {}
    /\ \A i \in PrefixBlockIds \ prefix.evictor : prefix.refcounts[i] > 0


(***************************************************************************)
(* C33: schedule() never runs out of GPU slots                             *)
(***************************************************************************)
NoFreeBlocksRaised(S) == S.fault = "NoFreeBlocksError"

\* swap_in of group g followed by the append_slot of the same step
SwapInThenAppend(S, g) == _append_slot(_swap_in(S, g, {}).S, g, <<>>).S

\* the state after the engine appended one token to every RUNNING sequence
\* of group g, before any length cap is applied
TokenAppended(S, g) ==
    [S EXCEPT !.seqs =
        [s \in SeqIds |->
            IF s[1] = g /\ S.seqs[s].status = "RUNNING"
            THEN [S.seqs[s] EXCEPT !.len = @ + 1]
            ELSE S.seqs[s]]]

\* _append_slot of running group g goes through whenever can_append_slot
\* holds
AppendSlotGuarded(S, g) ==
    can_append_slot(S, g) => ~NoFreeBlocksRaised(_append_slot(S, g, <<>>).S)

\* C33: in every state reachable through add_seq_group, schedule, one token
\* per scheduled sequence, fork_seq, free of finished sequences and
\* abort_seq_group, no schedule() call has raised NoFreeBlocks, and the
\* guards are sufficient in the state itself: allocate goes through for
\* every waiting group with can_allocate = OK, _append_slot for every running
\* group with can_append_slot, as the group is and after one more token for
\* each of its RUNNING sequences (which may start a new last block), and
\* swap_in followed by _append_slot for every swapped group with can_swap_in
C33_NoFreeBlocksNeverRaised ==
    /\ ~NoFreeBlocksRaised(State)
    /\ fault = "none" =>
          /\ \A g \in Range(waiting) :
                (num_seqs_status(State, g, "WAITING") > 0
                   /\ can_allocate(State, g) = "OK") =>
                   ~NoFreeBlocksRaised(_allocate(State, g))
          /\ \A g \in Range(running) :
                /\ AppendSlotGuarded(State, g)
                /\ AppendSlotGuarded(TokenAppended(State, g), g)
          /\ \A g \in Range(swapped) :
                can_swap_in(State, g) =>
                   ~NoFreeBlocksRaised(SwapInThenAppend(State, g))

\* a decode step has returned that served a group of three sequences sharing
\* one slot when exactly three GPU slots were free (can_append_slot held
\* with equality): two copies were made and one slot is left
C33_Witness ==
    /\ returned
    /\ fault = "none"
    /\ Len(running) = 1
    /\ num_seqs_status(State, running[1], "RUNNING") = 3
    /\ Len(out.blocks_to_copy) = 2
    /\ get_num_free_blocks(gpu_allocator) = 1


(***************************************************************************)
(* C34: copy on write in append_slot and the blocks_to_copy of a step      *)
(***************************************************************************)
\* the new token of sequence s goes into the last block of its table (no
\* new logical block starts) and that slot is shared
LastSlotShared(S, s) ==
    /\ S.block_tables[s] # <<>>
    /\ Len(S.block_tables[s]) = num_logical_blocks(S.seqs[s].len)
    /\ ref_count(S, S.block_tables[s][Len(S.block_tables[s])]) > 1

LastSlot(S, s) == S.block_tables[s][Len(S.block_tables[s])]

\* one append_slot(seq) call with result r in state S
AppendSlotCopies(S, s, r) ==
    Ok(r.S) =>
       /\ (r.ret # <<>>) <=> LastSlotShared(S, s)
       /\ r.ret # <<>> =>
             /\ r.ret[1] = LastSlot(S, s)[2]
             /\ r.ret[2] # r.ret[1]
             /\ LastSlot(r.S, s) = <<"gpu", r.ret[2]>>
             /\ Len(r.S.block_tables[s]) = Len(S.block_tables[s])
             /\ ref_count(r.S, LastSlot(S, s)) = ref_count(S, LastSlot(S, s)) - 1
             /\ ref_count(S, LastSlot(r.S, s)) = 0
             /\ ref_count(r.S, LastSlot(r.S, s)) = 1
       /\ (r.ret = <<>> /\ Len(S.block_tables[s])
                              = num_logical_blocks(S.seqs[s].len)) =>
             r.S = S

\* the destinations the copies list gives for source slot number src
Destinations(copies, src) ==
    SelectSeq(copies, LAMBDA c : c[1] = src)

\* the RUNNING sequences of group g whose last slot is b
Siblings(S, g, b) ==
    {s \in Range(get_seqs_status(S, g, "RUNNING")) :
        S.block_tables[s] # <<>> /\ LastSlot(S, s) = b}

\* group g was served by a decode step from S to S2 with the copies list:
\* for every slot b that k of its sequences had as their last slot, the list
\* has k - 1 pairwise distinct destinations for b, one sibling keeps b and
\* every other sibling is bound to one destination of its own
SiblingsServed(S, S2, g, copies) ==
    \A b \in {"gpu"} \X GpuIds :
       Siblings(S, g, b) # {} =>
          /\ ref_count(S, b) = Cardinality(Siblings(S, g, b))
          /\ Len(Destinations(copies, b[2])) = Cardinality(Siblings(S, g, b)) - 1
          /\ \A i, j \in 1..Len(Destinations(copies, b[2])) :
                i # j => Destinations(copies, b[2])[i] # Destinations(copies, b[2])[j]
          /\ Cardinality({s \in Siblings(S, g, b) : LastSlot(S2, s) = b}) = 1
          /\ ref_count(S2, b) = 1
          /\ \A s \in Siblings(S, g, b) :
                LastSlot(S2, s) # b =>
                   /\ <<b[2], LastSlot(S2, s)[2]>> \in Range(copies)
                   /\ ref_count(S2, LastSlot(S2, s)) = 1

NoFinishedGroup(S, q) == \A g \in Range(q) : ~group_is_finished(S, g)

\* the groups of queue q with an unfinished sequence, in the order of q
UnfinishedGroups(S, q) == SelectSeq(q, LAMBDA g : ~group_is_finished(S, g))

\* queue q2 holds the unfinished groups of q at the same relative positions
KeepsUnfinished(S, q, q2) == UnfinishedGroups(S, q2) = UnfinishedGroups(S, q)

MaybeSchedule == returned' \/ fault' # "none"

UnfinishedSeqs(S, g) ==
    {s \in Range(get_seqs(S, g)) : ~is_finished(S, s)}

\* C36: in every reachable scheduler state each group occurs at most once in
\* waiting, running and swapped taken together; a group in waiting has
\* exactly one WAITING sequence and no RUNNING or SWAPPED one, every
\* unfinished sequence of a group in running is RUNNING and every unfinished
\* sequence of a group in swapped is SWAPPED; no assertion of the scheduler
\* or the block manager has fired
C36_QueuesAndStatuses ==
    /\ fault # "AssertionError"
    /\ \A g \in Groups :
          /\ Occurrences(waiting, g) + Occurrences(running, g)
               + Occurrences(swapped, g) <= 1
          /\ g \in Range(waiting) =>
                /\ num_seqs_status(State, g, "WAITING") = 1
                /\ \A s \in UnfinishedSeqs(State, g) :
                      seqs[s].status = "WAITING"
          /\ g \in Range(running) =>
                \A s \in UnfinishedSeqs(State, g) : seqs[s].status = "RUNNING"
          /\ g \in Range(swapped) =>
                \A s \in UnfinishedSeqs(State, g) : seqs[s].status = "SWAPPED"

\* a group is swapped out with a SWAPPED sequence beside a finished sibling
\* while another group is running
C36_Witness ==
    /\ fault = "none"
    /\ running # <<>>
    /\ \E g \in Range(swapped) :
          /\ num_seqs_status(State, g, "SWAPPED") >= 1
          /\ num_seqs(State, g) > num_seqs_status(State, g, "SWAPPED")


(***************************************************************************)
(* C37: block tables and sequence statuses after schedule()                *)
(***************************************************************************)
\* every entry of the block table is a referenced slot of the device
TableOn(S, table, device) ==
    \A i \in 1..Len(table) :
       /\ table[i][1] = device
       /\ ref_count(S, table[i]) >= 1
       /\ table[i][2] \notin AllocOf(S, device).free_block_indices

\* the sequences of the groups gs that have the given status
SeqsWithStatus(S, gs, status) ==
    {s \in SeqIds : s[1] \in gs /\ S.seqs[s].status = status}

\* the block tables of state S after a schedule() call with the outputs
TablesAfterSchedule(S, outputs) ==
    /\ \A s \in SeqsWithStatus(S, Range(outputs.scheduled_seq_groups),
                               "RUNNING") :
          /\ S.block_tables[s] # <<>>
          /\ TableOn(S, S.block_tables[s], "gpu")
          /\ Len(S.block_tables[s]) = num_logical_blocks(S.seqs[s].len)
    /\ \A s \in SeqsWithStatus(S, Groups, "SWAPPED") :
          /\ S.block_tables[s] # <<>>
          /\ TableOn(S, S.block_tables[s], "cpu")
    /\ \A s \in SeqsWithStatus(S, Groups, "WAITING") :
          S.block_tables[s] = <<>>

\* C37: after every schedule() call that returns, every RUNNING sequence of
\* a scheduled group has a block table, one entry per logical block, all of
\* them referenced GPU slots (so get_block_table finds a table without
\* unassigned entries for each of them); every SWAPPED sequence has a table
\* of referenced CPU slots only; every WAITING sequence has no table.  In
\* every reachable state a WAITING sequence has no table, so allocate never
\* meets a sequence that already has one, and a RUNNING sequence has a
\* table on GPU slots
C37_TablesMatchStatuses ==
    [][/\ (returned' /\ fault' = "none") => TablesAfterSchedule(State', out')
       /\ fault = "none" =>
             /\ \A s \in SeqsWithStatus(State, Groups, "WAITING") :
                   block_tables[s] = <<>>
             /\ \A s \in SeqsWithStatus(State, Groups, "RUNNING") :
                   /\ block_tables[s] # <<>>
                   /\ TableOn(State, block_tables[s], "gpu")]_vars

\* a schedule() call has returned with a scheduled group that has RUNNING
\* sequences while another group is swapped out
C37_Witness ==
    /\ returned
    /\ fault = "none"
    /\ SeqsWithStatus(State, Range(out.scheduled_seq_groups), "RUNNING") # {}
    /\ SeqsWithStatus(State, Groups, "SWAPPED") # {}


(***************************************************************************)
(* Three arrivals in arrival order                                         *)
(*                                                                         *)
(* The waiting queue can only lose its arrival order when three groups     *)
(* are alive and sequences live longer than MaxSeqLen, so the arrival      *)
(* order is examined on a scheduler that receives the three requests of    *)
(* ArrivalRequests one after the other (the arrival time of a group is its *)
(* id) and length-caps a sequence at MaxArrivalLen tokens.                 *)
(***************************************************************************)
MaxArrivalLen == 8

\* the requests, as <<prompt length, best_of>>, in the order of their arrival
ArrivalRequests == <<<<2, 1>>, <<2, 1>>, <<1, 2>>>>

\* Sequence.append_token_id on every sequence of seq_list; a sequence that
\* reaches cap tokens is length-capped and freed
RECURSIVE append_token_ids_until(_, _, _)
append_token_ids_until(S, seq_list, cap) ==
    IF seq_list = <<>> \/ ~Ok(S) THEN S
    ELSE LET s  == Head(seq_list)
             S1 == [S EXCEPT !.seqs[s].len = @ + 1]
             S2 == IF S1.seqs[s].len >= cap
                   THEN free_seq([S1 EXCEPT !.seqs[s].status =
                                                "FINISHED_LENGTH_CAPPED"], s)
                   ELSE S1
         IN  append_token_ids_until(S2, Tail(seq_list), cap)

\* the next request of ArrivalRequests arrives: add_seq_group(seq_group)
AddSeqGroupInOrder ==
    /\ fault = "none"
    /\ NumCreated < Len(ArrivalRequests)
    /\ Install(add_seq_group(State, NumCreated + 1,
                             ArrivalRequests[NumCreated + 1][1],
                             ArrivalRequests[NumCreated + 1][2]))
    /\ out' = NoOutputs
    /\ returned' = FALSE
    /\ UNCHANGED pending
    /\ UNCHANGED <<alloc_vars, query_vars, prefix_vars, evictor_vars,
                 refcounter_vars, device_vars, v2_vars>>

\* the engine appends the sampled token of the step to every RUNNING
\* sequence of every scheduled group
AppendTokenIdLong ==
    /\ fault = "none"
    /\ pending # {}
    /\ Install(append_token_ids_until(State, running_seqs_of(State, pending),
                                      MaxArrivalLen))
    /\ pending' = {}
    /\ out' = NoOutputs
    /\ returned' = FALSE
    /\ UNCHANGED <<alloc_vars, query_vars, prefix_vars, evictor_vars,
                 refcounter_vars, device_vars, v2_vars>>

\* the engine calls schedule() only after the tokens of the previous step
\* have been appended
ScheduleStep ==
    /\ pending = {}
    /\ Schedule

NextArrivals ==
    \/ AddSeqGroupInOrder
    \/ ScheduleStep
    \/ AppendTokenIdLong
    \/ \E s \in SeqIds : FinishSeq(s)
    \/ \E s \in SeqIds : ForkSeq(s)
    \/ FreeFinishedSeqGroups

SpecArrivals == Init /\ [][NextArrivals]_vars

\* C38: groups are added with non-decreasing arrival times (a group's
\* arrival time is its id); in every reachable state the waiting queue is
\* ordered by arrival time ascending.
C38_WaitingOrderedByArrival ==
    \A i, k \in 1..Len(waiting) : i < k => waiting[i] < waiting[k]

\* the consequence C38 draws from the order: a schedule() that admits a
\* waiting group leaves no earlier-arrived group behind in waiting
C38_AdmissionInArrivalOrder ==
    [][(returned' /\ fault' = "none") =>
         \A g \in Range(waiting) \cap Range(running') :
           \A e \in Range(waiting) \cap Range(waiting') : g < e]_vars


(***************************************************************************)
(* The engine loop under fairness                                          *)
(*                                                                         *)
(* schedule() is called again and again, every scheduled sequence gets its *)
(* token, finished groups are dropped, and no request is aborted.  The     *)
(* fairness of an action A is WF_vars(A) written out,                      *)
(*     []<>(~ENABLED <<A>>_vars) \/ []<><<A>>_vars,                        *)
(* where ENABLED <<A>>_vars is given as the state predicate it equals      *)
(* when that is much cheaper to evaluate.                                  *)
(***************************************************************************)
\* the requests of the engine loop, as <<prompt length, best_of>>
LiveRequests == {<<4, 3>>, <<2, 1>>, <<14, 1>>}

\* a new request arrives: add_seq_group(seq_group)
AddSeqGroupLive ==
    /\ fault = "none"
    /\ NumCreated < MaxGroups
    /\ \E req \in LiveRequests :
         Install(add_seq_group(State, NumCreated + 1, req[1], req[2]))
    /\ out' = NoOutputs
    /\ returned' = FALSE
    /\ UNCHANGED pending
    /\ UNCHANGED <<alloc_vars, query_vars, prefix_vars, evictor_vars,
                 refcounter_vars, device_vars, v2_vars>>

NextLive ==
    \/ AddSeqGroupLive
    \/ ScheduleStep
    \/ AppendTokenIdLong
    \/ \E s \in SeqIds : FinishSeq(s)
    \/ \E s \in SeqIds : ForkSeq(s)
    \/ FreeFinishedSeqGroups

\* schedule() with the result r would change the state
ScheduleChanges(r) ==
    \/ r.S # State
    \/ r.outputs # out
    \/ Ok(r.S) # returned
    \/ (Ok(r.S) /\ ScheduledGroups(r.S, r.outputs) # pending)

\* ENABLED <<ScheduleStep>>_vars
ScheduleStepEnabled ==
    /\ pending = {}
    /\ fault = "none"
    /\ ScheduleChanges(_schedule(State))

\* ENABLED <<AppendTokenIdLong>>_vars: the step empties pending
AppendTokenIdEnabled ==
    /\ fault = "none"
    /\ pending # {}

ScheduleFair ==
    ([]<>(~ScheduleStepEnabled)) \/ ([]<><<ScheduleStep>>_vars)

AppendTokenIdFair ==
    ([]<>(~AppendTokenIdEnabled)) \/ ([]<><<AppendTokenIdLong>>_vars)

SpecLive == Init /\ [][NextLive]_vars /\ ScheduleFair /\ AppendTokenIdFair /\ WF_vars(FreeFinishedSeqGroups)

C39_NoIdleWaiting ==
    \A g \in Groups :
      ~<>[](/\ g \in Range(waiting)
            /\ running = <<>>
            /\ swapped = <<>>
            /\ fault = "none")


\* C40: an operation of the allocator that ends with NoFreeBlocksError
\* (allocate_mutable, allocate_immutable, or the copy-on-write inside
\* append_token_ids) leaves every refcount, the free set, the pending
\* copy-on-write list and every block's slot binding as they were.
C40_FailedAllocationChangesNothing ==
    [][alloc_last'.result = "NoFreeBlocksError" =>
         /\ alloc'.refcounts = alloc.refcounts
         /\ alloc'.free_block_indices = alloc.free_block_indices
         /\ alloc'.copy_on_writes = alloc.copy_on_writes
         /\ \A h \in Handles :
              /\ blocks'[h].exists = blocks[h].exists
              /\ blocks'[h].physical_block_index =
                   blocks[h].physical_block_index]_vars

=============================================================================
